---- MODULE Spec2Model ----
(***************************************************************************)
(* Tool invocation orchestration engine of cora: argument validator,       *)
(* result cache, retry wrapper, batch executor, round-trip loop and        *)
(* stream orchestrator, each modelled from its Go source.                  *)
(*                                                                         *)
(* One specification per component (SpecValidate, SpecRetry, SpecExec,     *)
(* SpecLoop, SpecStream, SpecCache, SpecAccum); the variables of the other *)
(* components stay at their idle values. SpecCache has the cache called by *)
(* concurrent goroutines, with the counter increments of Get split into    *)
(* load and store; in SpecExec a worker's Get is one step. SpecRetryFair,  *)
(* SpecStreamFair and SpecParallel add the scheduling of the goroutines.   *)
(***************************************************************************)
EXTENDS Integers, Sequences, FiniteSets, TLC

\* The nil error / nil value of Go.
Nil == [kind |-> "nil"]

(***************************************************************************)
(* Argument validator (ToolValidator)                                      *)
(***************************************************************************)

\* Argument names of the modelled tool schema.
Fields == {"x", "y"}

\* Width of Go's int in the model, in bits.
IntBits == 3

\* math.MaxInt and math.MinInt of that width.
IntMax == 2 ^ (IntBits - 1) - 1
IntMin == -(2 ^ (IntBits - 1))

\* A whole number that is a float64 but beyond every int (as 1e19 is beyond
\* int64), and not next to the int range.
BigWhole == 2 ^ (IntBits + 1)

\* Argument values as json.Unmarshal produces them in a map[string]any:
\* a float64 is kept as twice its value, so 4 is 2.0 and 5 is 2.5.
Values ==
  { [kind |-> "string"], [kind |-> "bool"], [kind |-> "slice"], [kind |-> "map"],
    [kind |-> "nil"],
    [kind |-> "float64", twice |-> 4], [kind |-> "float64", twice |-> 5],
    [kind |-> "float64", twice |-> 2 * BigWhole] }

\* Declared JSON types; "other" is any type string validateType's switch
\* has no case for, "untyped" a property whose "type" is not a string.
DeclaredTypes == {"string", "number", "integer", "boolean", "array", "object"}
PropertyTypes == DeclaredTypes \cup {"other", "untyped"}

\* No field name.
NoField == ""

\* Sequences over S without repetition (the orders of a Go map iteration,
\* and the required lists).
RECURSIVE Arrangements(_)
Arrangements(S) ==
  IF S = {} THEN {<<>>}
  ELSE UNION { { <<e>> \o t : t \in Arrangements(S \ {e}) } : e \in S }

Permutations_(S) == { p \in Arrangements(S) : Len(p) = Cardinality(S) }

RequiredLists == UNION { Permutations_(S) : S \in SUBSET Fields }

PropertyMaps == UNION { [S -> PropertyTypes] : S \in SUBSET Fields }

\* A tool whose ParametersSchema is empty (len == 0).
NoSchema ==
  [empty |-> TRUE, required |-> <<>>, hasProperties |-> FALSE, properties |-> <<>>]

\* ParametersSchema: its "required" list and its "properties" map;
\* hasProperties is false when "properties" is no map[string]any.
Schemas ==
  {NoSchema} \cup
  [empty : {FALSE}, required : RequiredLists, hasProperties : {TRUE},
   properties : PropertyMaps] \cup
  [empty : {FALSE}, required : RequiredLists, hasProperties : {FALSE},
   properties : {<<>>}]

ArgMaps == UNION { [S -> Values] : S \in SUBSET Fields }

\* Tool names presented to the validator: one registered, one not.
RegisteredTool == "calculate"
ToolNames == {RegisteredTool, "nosuch"}

VARIABLES
  tv_tools,   \* ToolValidator.tools: registered name -> schema
  v_name,     \* name argument of ValidateCall
  v_args,     \* args argument of ValidateCall
  v_err,      \* error returned by ValidateCall
  v_pc,       \* "call" before ValidateCall ran, "done" after, "twice" after
              \* the same call was validated a second time
  v_again     \* error returned by the second ValidateCall

vvars == <<tv_tools, v_name, v_args, v_err, v_pc, v_again>>

ErrUnknownTool(name) == [kind |-> "UnknownTool", name |-> name]
ErrMissingParameter(f) == [kind |-> "MissingParameter", field |-> f]
ErrTypeMismatch(f) == [kind |-> "TypeMismatch", field |-> f]

\* reflect.TypeOf(value).Kind()
KindOf(value) ==
  CASE value.kind = "string" -> "String"
    [] value.kind = "bool" -> "Bool"
    [] value.kind = "slice" -> "Slice"
    [] value.kind = "map" -> "Map"
    [] value.kind = "float64" -> "Float64"
    [] OTHER -> "Invalid"

\* Truncation toward 0 of a float64 kept as twice its value.
TruncTwice(t) == IF t >= 0 THEN (t \div 2) * 2 ELSE -(((-t) \div 2) * 2)

\* float64(int(f)), as twice its value: the truncation when it fits an int;
\* otherwise the result of int(f) depends on the implementation and can be
\* any int.
IntRoundTrip(t) ==
  IF 2 * IntMin <= TruncTwice(t) /\ TruncTwice(t) <= 2 * IntMax
  THEN {TruncTwice(t)}
  ELSE { 2 * n : n \in IntMin .. IntMax }

validateType(name, value, expectedType) ==
  IF value.kind = "nil" THEN Nil
  ELSE LET actualType == KindOf(value) IN
    CASE expectedType = "string" ->
           IF actualType # "String" THEN ErrTypeMismatch(name) ELSE Nil
      [] expectedType = "number" ->
           IF actualType # "Float64" /\ actualType # "Float32"
           THEN ErrTypeMismatch(name) ELSE Nil
      [] expectedType = "integer" ->
           IF value.kind = "float64"
           THEN IF value.twice \notin IntRoundTrip(value.twice)
                THEN ErrTypeMismatch(name) ELSE Nil
           ELSE ErrTypeMismatch(name)
      [] expectedType = "boolean" ->
           IF actualType # "Bool" THEN ErrTypeMismatch(name) ELSE Nil
      [] expectedType = "array" ->
           IF actualType # "Slice" /\ actualType # "Array"
           THEN ErrTypeMismatch(name) ELSE Nil
      [] expectedType = "object" ->
           IF actualType # "Map" THEN ErrTypeMismatch(name) ELSE Nil
      [] OTHER -> Nil

\* The first required field absent from args, in the order of the list.
RECURSIVE FirstMissing(_, _)
FirstMissing(required, args) ==
  IF required = <<>> THEN NoField
  ELSE IF Head(required) \notin DOMAIN args THEN Head(required)
  ELSE FirstMissing(Tail(required), args)

\* The type loop over args, visited in the map iteration order `order`.
RECURSIVE TypeLoop_ClosedWorld(_, _, _)
TypeLoop_ClosedWorld(properties, args, order) ==
  IF order = <<>> THEN Nil
  ELSE LET argName == Head(order) IN
    IF argName \notin DOMAIN properties
    THEN ErrTypeMismatch(argName)
    ELSE IF properties[argName] = "untyped"
    THEN TypeLoop_ClosedWorld(properties, args, Tail(order))
    ELSE LET err == validateType(argName, args[argName], properties[argName]) IN
      IF err # Nil THEN err ELSE TypeLoop_ClosedWorld(properties, args, Tail(order))

RECURSIVE TypeLoop(_, _, _)
TypeLoop(properties, args, order) ==
  IF order = <<>> THEN Nil
  ELSE LET argName == Head(order) IN
    IF argName \notin DOMAIN properties
    THEN TypeLoop(properties, args, Tail(order))
    ELSE IF properties[argName] = "untyped"
    THEN TypeLoop(properties, args, Tail(order))
    ELSE LET err == validateType(argName, args[argName], properties[argName]) IN
      IF err # Nil THEN err ELSE TypeLoop(properties, args, Tail(order))

ValidateCall_NoRequiredCheck(tools, name, args, order) ==
  IF name \notin DOMAIN tools THEN ErrUnknownTool(name)
  ELSE LET schema == tools[name] IN
    IF schema.empty THEN Nil
    ELSE IF ~schema.hasProperties THEN Nil
    ELSE TypeLoop(schema.properties, args, order)

\* ValidateCall on the tool table `tools`; `order` is the order in which
\* the range loop over args visits its keys.
ValidateCall(tools, name, args, order) ==
  IF name \notin DOMAIN tools THEN ErrUnknownTool(name)
  ELSE LET schema == tools[name] IN
    IF schema.empty THEN Nil
    ELSE LET missing == FirstMissing(schema.required, args) IN
      IF missing # NoField THEN ErrMissingParameter(missing)
      ELSE IF ~schema.hasProperties THEN Nil
      ELSE TypeLoop(schema.properties, args, order)

ValidatorInit ==
  /\ tv_tools \in [{RegisteredTool} -> Schemas]
  /\ v_name \in ToolNames
  /\ v_args \in ArgMaps
  /\ v_err = Nil
  /\ v_pc = "call"
  /\ v_again = Nil

ValidatorIdle ==
  /\ tv_tools = [t \in {RegisteredTool} |-> NoSchema]
  /\ v_name = RegisteredTool
  /\ v_args = << >>
  /\ v_err = Nil
  /\ v_pc = "idle"
  /\ v_again = Nil

\* One call of ValidateCall(v_name, v_args).
Validate ==
  /\ v_pc = "call"
  /\ \E order \in Permutations_(DOMAIN v_args) :
       v_err' = ValidateCall(tv_tools, v_name, v_args, order)
  /\ v_pc' = "done"
  /\ UNCHANGED <<tv_tools, v_name, v_args, v_again>>

\* ValidateCall(v_name, v_args) called once more on the same validator.
ValidateAgain ==
  /\ v_pc = "done"
  /\ \E order \in Permutations_(DOMAIN v_args) :
       v_again' = ValidateCall(tv_tools, v_name, v_args, order)
  /\ v_pc' = "twice"
  /\ UNCHANGED <<tv_tools, v_name, v_args, v_err>>


(***************************************************************************)
(* Retry wrapper (RetryableToolHandler)                                    *)
(***************************************************************************)

\* Largest MaxAttempts of a modelled RetryConfig.
MaxAttemptsBound == 3

\* Errors the inner handler can return.
InnerErrors == {"transient", "permanent", "DeadlineExceeded", "Canceled"}

\* RetryConfig.RetryableErrors as configured: none, or one explicit error.
RetryableSets == { {}, {"transient"} }

\* Backoff durations are counted in ticks; a zero InitialBackoff is what a
\* RetryConfig literal that sets only MaxAttempts has.
RetryConfigs ==
  [MaxAttempts : -1 .. MaxAttemptsBound, RetryableErrors : RetryableSets,
   InitialBackoff : {0, 1, 3}, MaxBackoff : {2}, BackoffMultiplier : {2}]

VARIABLES
  config,        \* the RetryConfig of the wrapper
  attempt,       \* loop variable of the for loop
  lastErr,       \* lastErr
  r_pc,          \* "loop": at the loop condition, "wait": in the backoff select,
                 \* "done": returned, "idle": no call
  r_ret,         \* what the wrapped handler returned: [result, err]
  r_ctxDone,     \* the calling context is cancelled
  r_outcomes,    \* outcomes of the inner handler's invocations, in order
  r_waits        \* durations of the backoff waits entered, in order

rvars == <<config, attempt, lastErr, r_pc, r_ret, r_ctxDone, r_outcomes, r_waits>>

\* An outcome of the inner handler: a result with a nil error, or an error.
Success == [result |-> [kind |-> "success"], err |-> Nil]
Failure(e) == [result |-> Nil, err |-> [kind |-> e]]
InnerOutcomes == {Success} \cup { Failure(e) : e \in InnerErrors }

ErrNonRetryable(cause) == [kind |-> "NonRetryable", cause |-> cause]
ErrRetriesExhausted(cause) == [kind |-> "RetriesExhausted", cause |-> cause]
\* ctx.Err() of a cancelled context
ErrContext == [kind |-> "Canceled"]

\* isRetryable with a default that retries every error.
isRetryable_AllByDefault(err, retryableErrors) ==
  IF retryableErrors = {}
  THEN TRUE
  ELSE \E retryableErr \in retryableErrors : err.kind = retryableErr

isRetryable(err, retryableErrors) ==
  IF retryableErrors = {}
  THEN err.kind = "DeadlineExceeded" \/ err.kind = "Canceled"
  ELSE \E retryableErr \in retryableErrors : err.kind = retryableErr

RetryInit ==
  /\ config \in RetryConfigs
  /\ attempt = 0
  /\ lastErr = Nil
  /\ r_pc = "loop"
  /\ r_ret = [result |-> Nil, err |-> Nil]
  /\ r_ctxDone = FALSE
  /\ r_outcomes = <<>>
  /\ r_waits = <<>>

RetryIdle ==
  /\ config = [MaxAttempts |-> 0, RetryableErrors |-> {}, InitialBackoff |-> 0,
               MaxBackoff |-> 0, BackoffMultiplier |-> 0]
  /\ attempt = 0
  /\ lastErr = Nil
  /\ r_pc = "idle"
  /\ r_ret = [result |-> Nil, err |-> Nil]
  /\ r_ctxDone = FALSE
  /\ r_outcomes = <<>>
  /\ r_waits = <<>>

\* The loop condition `attempt < config.MaxAttempts`.
LoopCondition_Inclusive(a, cfg) == a <= cfg.MaxAttempts

LoopCondition(a, cfg) == a < cfg.MaxAttempts

\* The condition of `if attempt < config.MaxAttempts-1` guarding the backoff.
HasMoreAttempts(a, cfg) == a < cfg.MaxAttempts - 1

\* math.Pow for a whole base and a whole exponent >= 0.
RECURSIVE Pow(_, _)
Pow(base, e) == IF e = 0 THEN 1 ELSE base * Pow(base, e - 1)

\* calculateBackoff without the cap at MaxBackoff.
calculateBackoff_Uncapped(a, cfg) ==
  cfg.InitialBackoff * Pow(cfg.BackoffMultiplier, a)

\* calculateBackoff: InitialBackoff * BackoffMultiplier^attempt, capped at
\* MaxBackoff.
calculateBackoff(a, cfg) ==
  LET backoff == cfg.InitialBackoff * Pow(cfg.BackoffMultiplier, a)
  IN IF backoff > cfg.MaxBackoff THEN cfg.MaxBackoff ELSE backoff

\* One iteration of the loop body up to the backoff select: the inner handler
\* is invoked and returns `outcome`.
RetryAttempt ==
  /\ r_pc = "loop"
  /\ LoopCondition(attempt, config)
  /\ \E outcome \in InnerOutcomes :
       /\ r_outcomes' = Append(r_outcomes, outcome)
       /\ IF outcome.err = Nil
          THEN /\ r_ret' = [result |-> outcome.result, err |-> Nil]
               /\ r_pc' = "done"
               /\ UNCHANGED <<lastErr, attempt>>
          ELSE /\ lastErr' = outcome.err
               /\ IF ~isRetryable(outcome.err, config.RetryableErrors)
                  THEN /\ r_ret' = [result |-> Nil,
                                    err |-> ErrNonRetryable(outcome.err)]
                       /\ r_pc' = "done"
                       /\ UNCHANGED attempt
                  ELSE IF HasMoreAttempts(attempt, config)
                  THEN /\ r_pc' = "wait"
                       /\ UNCHANGED <<r_ret, attempt>>
                  ELSE /\ attempt' = attempt + 1
                       /\ r_pc' = "loop"
                       /\ UNCHANGED r_ret
       /\ r_waits' =
            IF /\ outcome.err # Nil
               /\ isRetryable(outcome.err, config.RetryableErrors)
               /\ HasMoreAttempts(attempt, config)
            THEN Append(r_waits, calculateBackoff(attempt, config))
            ELSE r_waits
  /\ UNCHANGED <<config, r_ctxDone>>

\* Whether the timer case of the backoff select can be the case taken. The
\* goroutine parked in the select is resumed by the first of the two events
\* and takes that event's case, so a pending timer loses to a cancellation
\* that came first; a timer of a zero backoff is due when the select is
\* entered and can be taken even though the context is cancelled.
TimerCaseReady_Always(a, cfg, ctxDone) == TRUE

TimerCaseReady(a, cfg, ctxDone) == ~ctxDone \/ calculateBackoff(a, cfg) <= 0

\* The backoff select takes `case <-time.After(backoff)`.
RetryBackoffElapsed ==
  /\ r_pc = "wait"
  /\ TimerCaseReady(attempt, config, r_ctxDone)
  /\ attempt' = attempt + 1
  /\ r_pc' = "loop"
  /\ UNCHANGED <<config, lastErr, r_ret, r_ctxDone, r_outcomes, r_waits>>

\* The backoff select takes `case <-ctx.Done()`.
RetryBackoffCancelled ==
  /\ r_pc = "wait"
  /\ r_ctxDone
  /\ r_ret' = [result |-> Nil, err |-> ErrContext]
  /\ r_pc' = "done"
  /\ UNCHANGED <<config, attempt, lastErr, r_ctxDone, r_outcomes, r_waits>>

\* The loop condition fails: all attempts are used up.
RetryExhausted ==
  /\ r_pc = "loop"
  /\ ~LoopCondition(attempt, config)
  /\ r_ret' = [result |-> Nil, err |-> ErrRetriesExhausted(lastErr)]
  /\ r_pc' = "done"
  /\ UNCHANGED <<config, attempt, lastErr, r_ctxDone, r_outcomes, r_waits>>

\* The caller cancels the context passed to the wrapped handler.
RetryCtxCancel ==
  /\ r_pc \in {"loop", "wait"}
  /\ ~r_ctxDone
  /\ r_ctxDone' = TRUE
  /\ UNCHANGED <<config, attempt, lastErr, r_pc, r_ret, r_outcomes, r_waits>>


(***************************************************************************)
(* Result cache (ToolCache)                                                *)
(***************************************************************************)

\* Last instant of the modelled clock; time.Now() is never the zero Time,
\* so the clock starts at 1.
MaxClock == 3

\* Largest maxSize of a modelled cache.
MaxCacheSize == 2

\* The TTL of the modelled cache, in clock ticks.
CacheTTL == 1

\* The JSON number text of half of `twice`, for 0 <= twice <= 7.
NumberText(twice) ==
  <<"0", "0.5", "1", "1.5", "2", "2.5", "3", "3.5">>[twice + 1]

\* json.Marshal of one argument value: an int n and the float64 n have the
\* same text.
JSONValue(value) ==
  CASE value.kind = "string" -> "\"s\""
    [] value.kind = "bool" -> "true"
    [] value.kind = "slice" -> "[]"
    [] value.kind = "map" -> "{}"
    [] value.kind = "float64" -> NumberText(value.twice)
    [] value.kind = "int" -> NumberText(2 * value.n)
    [] OTHER -> "null"

\* Whether json.Marshal(args) succeeds: a channel value has no JSON encoding.
Marshalable(args) == \A f \in DOMAIN args : args[f].kind # "chan"

\* json.Marshal of a map writes its keys in sorted order.
SortedFields == <<"x", "y">>

RECURSIVE MarshalFrom(_, _)
MarshalFrom(args, i) ==
  IF i > Len(SortedFields) THEN <<>>
  ELSE IF SortedFields[i] \in DOMAIN args
  THEN <<<<SortedFields[i], JSONValue(args[SortedFields[i]])>>>>
         \o MarshalFrom(args, i + 1)
  ELSE MarshalFrom(args, i + 1)

MarshalJSON(args) == MarshalFrom(args, 1)

\* The SHA-256 of name followed by the JSON of args, kept as the hashed text.
cacheKey_NameOnly(name, args) == <<name, <<>>>>

cacheKey(name, args) == <<name, MarshalJSON(args)>>

\* A cache: ToolCache.cache keyed by cacheKey, with hits and misses.
EmptyCache(ttl, maxSize) ==
  [cache |-> <<>>, ttl |-> ttl, maxSize |-> maxSize, hits |-> 0, misses |-> 0]

\* ToolCache.Get at instant `now`: [found, result, err] and the cache after.
CacheGet_NoExpiry(tc, name, args, now) ==
  LET key == cacheKey(name, args) IN
  IF key \notin DOMAIN tc.cache
  THEN [found |-> FALSE, result |-> Nil, err |-> Nil,
        tc |-> [tc EXCEPT !.misses = @ + 1]]
  ELSE [found |-> TRUE, result |-> tc.cache[key].result, err |-> tc.cache[key].err,
        tc |-> [tc EXCEPT !.hits = @ + 1]]

CacheGet(tc, name, args, now) ==
  LET key == cacheKey(name, args) IN
  IF key \notin DOMAIN tc.cache
  THEN [found |-> FALSE, result |-> Nil, err |-> Nil,
        tc |-> [tc EXCEPT !.misses = @ + 1]]
  ELSE LET cached == tc.cache[key] IN
    IF now - cached.timestamp > tc.ttl
    THEN [found |-> FALSE, result |-> Nil, err |-> Nil,
          tc |-> [tc EXCEPT !.misses = @ + 1]]
    ELSE [found |-> TRUE, result |-> cached.result, err |-> cached.err,
          tc |-> [tc EXCEPT !.hits = @ + 1]]

\* The keys the eviction scan of Set can end on: an entry no other entry is
\* older than (ties go to whichever the map iteration meets first).
OldestKeys_Newest(m) ==
  { k \in DOMAIN m : \A j \in DOMAIN m : m[k].timestamp >= m[j].timestamp }

OldestKeys(m) ==
  { k \in DOMAIN m : \A j \in DOMAIN m : m[k].timestamp <= m[j].timestamp }

\* The map with key k removed.
Without(m, k) == [j \in (DOMAIN m) \ {k} |-> m[j]]

\* The map with key k set to e.
With(m, k, e) == [j \in (DOMAIN m) \cup {k} |-> IF j = k THEN e ELSE m[j]]

\* ToolCache.Set at instant `now`: the caches it can leave.
CacheSet(tc, name, args, result, err, now) ==
  LET key == cacheKey(name, args)
      entry == [result |-> result, err |-> err, timestamp |-> now]
  IN IF Cardinality(DOMAIN tc.cache) >= tc.maxSize /\ DOMAIN tc.cache # {}
     THEN { [tc EXCEPT !.cache = With(Without(tc.cache, oldestKey), key, entry)] :
              oldestKey \in OldestKeys(tc.cache) }
     ELSE { [tc EXCEPT !.cache = With(tc.cache, key, entry)] }


(***************************************************************************)
(* Batch executor (ToolExecutor)                                           *)
(***************************************************************************)

\* Longest batch handed to executeBatch.
MaxBatchLen == 3

\* Most calls one executor is handed over its life (all batches together).
MaxTotalCalls == 3

\* Argument maps of the modelled calls: {"x": 2.0} and {}.
ArgsX == [f \in {"x"} |-> [kind |-> "float64", twice |-> 4]]
ArgsNone == << >>

\* The handlers map: tool1 succeeds, tool2 fails; "ghost" is a declared tool
\* with no handler.
HandlerNames == {"tool1", "tool2"}

toolCallRequest(name, args) == [name |-> name, args |-> args]

\* The calls a batch is made of.
ExecCalls ==
  { toolCallRequest("tool1", ArgsX), toolCallRequest("tool2", ArgsX),
    toolCallRequest("tool1", ArgsNone), toolCallRequest("ghost", ArgsX) }

RECURSIVE SeqsUpTo(_, _)
SeqsUpTo(S, n) ==
  IF n = 0 THEN {<<>>}
  ELSE LET shorter == SeqsUpTo(S, n - 1) IN
    shorter \cup { Append(q, e) : q \in { t \in shorter : Len(t) = n - 1 }, e \in S }

\* The tools given to WithValidator: every tool requires a number "x".
NumberXSchema ==
  [empty |-> FALSE, required |-> <<"x">>, hasProperties |-> TRUE,
   properties |-> [f \in {"x"} |-> "number"]]
ExecTools == [n \in HandlerNames \cup {"ghost"} |-> NumberXSchema]

\* What the handler registered under `name` returns for `args`.
HandlerOutcome(name, args) ==
  IF name = "tool2"
  THEN [result |-> Nil, err |-> [kind |-> "tool failed"]]
  ELSE [result |-> [kind |-> "result", of |-> name, args |-> MarshalJSON(args)],
        err |-> Nil]

\* The RetryConfig handed to WithRetry: the error of the failing handler is
\* listed as retryable.
ExecRetryConfig ==
  [MaxAttempts |-> 2, RetryableErrors |-> {"tool failed"}, InitialBackoff |-> 1,
   MaxBackoff |-> 2, BackoffMultiplier |-> 2]

\* What the handler wrapped by RetryableToolHandler returns when every
\* invocation of the inner handler returns `out` and the context is not
\* cancelled: the loop of the wrapper run to its end.
RetryableToolHandler(out, cfg) ==
  IF ~LoopCondition(0, cfg)
  THEN [result |-> Nil, err |-> ErrRetriesExhausted(Nil)]
  ELSE IF out.err = Nil THEN out
  ELSE IF ~isRetryable(out.err, cfg.RetryableErrors)
  THEN [result |-> Nil, err |-> ErrNonRetryable(out.err)]
  ELSE [result |-> Nil, err |-> ErrRetriesExhausted(out.err)]

ErrNoHandler(name) == [kind |-> "NoHandler", name |-> name]
ErrToolFailed(name, cause) == [kind |-> "ToolFailed", name |-> name, cause |-> cause]

toolCallResult(name, result, err, cached) ==
  [name |-> name, result |-> result, err |-> err, cached |-> cached]

\* The zero value of toolCallResult, as make([]toolCallResult, n) fills it.
ZeroResult == toolCallResult("", Nil, Nil, FALSE)

VARIABLES
  te,           \* the executor's settings: parallel, stopOnError,
                \* cache (cache # nil), validator (validator # nil), maxRounds
  metrics,      \* totalCalls, successfulCalls, failedCalls, cachedCalls
  tc,           \* the executor's ToolCache
  now,          \* the clock
  b_pc,         \* "idle", "serial", "parallel" or "returned"
  b_count,      \* number of executeBatch calls so far
  calls,        \* the calls of the running batch
  results,      \* the results slice of the running batch
  b_err,        \* the error executeBatch returned
  b_i,          \* serial: index of the next call
  w_pc,         \* parallel: each worker's position
  w_local,      \* parallel: each worker's result, and the counter it loaded
  errChan,      \* parallel: the buffered error channel
  doneChan,     \* parallel: number of signals in the done channel
  handlerLog,   \* handler invocations so far: [batch, index, key]
  b_tally       \* calls so far left unexecuted by a batch that returned early
                \* (skipped), and results so far stored marked cached (cached)

evars == <<te, metrics, tc, now, b_pc, b_count, calls, results, b_err, b_i, w_pc,
           w_local, errChan, doneChan, handlerLog, b_tally>>

ZeroMetrics ==
  [totalCalls |-> 0, successfulCalls |-> 0, failedCalls |-> 0, cachedCalls |-> 0]

\* retry (retryConfig # nil) is set by the round-trip loop from its call plan.
ExecSettings ==
  [parallel : BOOLEAN, stopOnError : BOOLEAN, cache : BOOLEAN,
   validator : BOOLEAN, retry : {FALSE}, maxRounds : {5}]

ExecIdleBatch ==
  /\ metrics = ZeroMetrics
  /\ now = 1
  /\ b_pc = "idle"
  /\ b_count = 0
  /\ calls = <<>>
  /\ results = <<>>
  /\ b_err = Nil
  /\ b_i = 1
  /\ w_pc = <<>>
  /\ w_local = <<>>
  /\ errChan = <<>>
  /\ doneChan = 0
  /\ handlerLog = <<>>
  /\ b_tally = [skipped |-> 0, cached |-> 0]

ExecInit ==
  /\ te \in ExecSettings
  /\ tc = IF te.cache THEN EmptyCache(CacheTTL, MaxCacheSize) ELSE EmptyCache(0, 0)
  /\ ExecIdleBatch

ExecIdle ==
  /\ te = [parallel |-> FALSE, stopOnError |-> TRUE, cache |-> FALSE,
           validator |-> FALSE, retry |-> FALSE, maxRounds |-> 5]
  /\ tc = EmptyCache(0, 0)
  /\ ExecIdleBatch

\* PreCall with the cache consulted before the arguments are validated.
PreCall_CacheFirst(call, cache, order, t) ==
  LET got == IF te.cache THEN CacheGet(cache, call.name, call.args, t)
             ELSE [found |-> FALSE, result |-> Nil, err |-> Nil, tc |-> cache]
      verr == IF te.validator
              THEN ValidateCall(ExecTools, call.name, call.args, order)
              ELSE Nil
  IN IF got.found
     THEN [phase |-> "return", hit |-> TRUE, tc |-> got.tc,
           res |-> toolCallResult(call.name, got.result, got.err, TRUE)]
     ELSE IF verr # Nil
     THEN [phase |-> "return", hit |-> FALSE, tc |-> got.tc,
           res |-> toolCallResult(call.name, Nil, verr, FALSE)]
     ELSE IF call.name \notin HandlerNames
     THEN [phase |-> "return", hit |-> FALSE, tc |-> got.tc,
           res |-> toolCallResult(call.name, Nil, ErrNoHandler(call.name), FALSE)]
     ELSE [phase |-> "invoke", hit |-> FALSE, tc |-> got.tc, res |-> ZeroResult]

\* executeSingleCall up to the handler lookup: validation, cache lookup and
\* handler lookup. phase "return" carries the result returned without
\* a handler call, phase "invoke" means the handler is called next.
PreCall(call, cache, order, t) ==
  LET verr == IF te.validator
              THEN ValidateCall(ExecTools, call.name, call.args, order)
              ELSE Nil
  IN IF verr # Nil
     THEN [phase |-> "return", hit |-> FALSE, tc |-> cache,
           res |-> toolCallResult(call.name, Nil, verr, FALSE)]
     ELSE LET got == IF te.cache THEN CacheGet(cache, call.name, call.args, t)
                     ELSE [found |-> FALSE, result |-> Nil, err |-> Nil, tc |-> cache]
     IN IF got.found
        THEN [phase |-> "return", hit |-> TRUE, tc |-> got.tc,
              res |-> toolCallResult(call.name, got.result, got.err, TRUE)]
        ELSE IF call.name \notin HandlerNames
        THEN [phase |-> "return", hit |-> FALSE, tc |-> got.tc,
              res |-> toolCallResult(call.name, Nil, ErrNoHandler(call.name), FALSE)]
        ELSE [phase |-> "invoke", hit |-> FALSE, tc |-> got.tc, res |-> ZeroResult]

\* Invoke with a write-back that skips failed outcomes.
Invoke_StoreSuccessOnly(call, cache, t) ==
  LET inner == HandlerOutcome(call.name, call.args)
      out == IF te.retry THEN RetryableToolHandler(inner, ExecRetryConfig)
             ELSE inner
      res == toolCallResult(call.name, out.result, out.err, FALSE)
  IN IF te.cache /\ out.err = Nil
     THEN { [res |-> res, tc |-> c] :
              c \in CacheSet(cache, call.name, call.args, out.result, out.err, t) }
     ELSE { [res |-> res, tc |-> cache] }

\* executeSingleCall from the handler call on: the handler runs and its
\* outcome is stored in the cache. The set of [res, tc] it can end in.
Invoke(call, cache, t) ==
  LET inner == HandlerOutcome(call.name, call.args)
      out == IF te.retry THEN RetryableToolHandler(inner, ExecRetryConfig)
             ELSE inner
      res == toolCallResult(call.name, out.result, out.err, FALSE)
  IN IF te.cache
     THEN { [res |-> res, tc |-> c] :
              c \in CacheSet(cache, call.name, call.args, out.result, out.err, t) }
     ELSE { [res |-> res, tc |-> cache] }

LogEntry(i, call) ==
  [batch |-> b_count, index |-> i, key |-> cacheKey(call.name, call.args),
   at |-> now]

\* BeginBatch counting the batch as one call.
BeginBatch_CountsBatches(batch) ==
  /\ calls' = batch
  /\ metrics' = [metrics EXCEPT !.totalCalls = @ + 1]
  /\ results' = [i \in 1 .. Len(batch) |-> ZeroResult]
  /\ w_pc' = [i \in 1 .. Len(batch) |-> IF te.parallel THEN "start" ELSE "none"]
  /\ w_local' = [i \in 1 .. Len(batch) |-> [res |-> ZeroResult, loaded |-> 0]]
  /\ b_pc' = IF te.parallel THEN "parallel" ELSE "serial"
  /\ b_count' = b_count + 1
  /\ b_err' = Nil
  /\ b_i' = 1
  /\ errChan' = <<>>
  /\ doneChan' = 0
  /\ UNCHANGED <<te, tc, now, handlerLog, b_tally>>

\* executeBatch(batch) for a non-empty batch: the total is counted and the
\* batch starts in the mode set.
BeginBatch(batch) ==
  /\ calls' = batch
  /\ metrics' = [metrics EXCEPT !.totalCalls = @ + Len(batch)]
  /\ results' = [i \in 1 .. Len(batch) |-> ZeroResult]
  /\ w_pc' = [i \in 1 .. Len(batch) |-> IF te.parallel THEN "start" ELSE "none"]
  /\ w_local' = [i \in 1 .. Len(batch) |-> [res |-> ZeroResult, loaded |-> 0]]
  /\ b_pc' = IF te.parallel THEN "parallel" ELSE "serial"
  /\ b_count' = b_count + 1
  /\ b_err' = Nil
  /\ b_i' = 1
  /\ errChan' = <<>>
  /\ doneChan' = 0
  /\ UNCHANGED <<te, tc, now, handlerLog, b_tally>>

\* A caller hands the executor a batch.
StartBatch ==
  /\ b_pc \in {"idle", "returned"}
  /\ \E batch \in SeqsUpTo(ExecCalls, MaxBatchLen) :
       /\ Len(batch) > 0
       /\ metrics.totalCalls + Len(batch) <= MaxTotalCalls
       /\ BeginBatch(batch)

\* The error executeSerial returns for a failed call under stop-on-error.
SerialError(call, err) == ErrToolFailed(call.name, err)

\* Whether executeSerial returns right after a failed call.
StopsAfterFailure_Never(settings) == FALSE

StopsAfterFailure(settings) == settings.stopOnError

\* One iteration of executeSerial's loop: the call at b_i is executed, its
\* result stored, and the counters updated.
SerialStep ==
  /\ b_pc = "serial"
  /\ b_i <= Len(calls)
  /\ LET call == calls[b_i] IN
     \E order \in Permutations_(DOMAIN call.args) :
       LET pre == PreCall(call, tc, order, now) IN
       \E done \in IF pre.phase = "invoke" THEN Invoke(call, pre.tc, now)
                   ELSE { [res |-> pre.res, tc |-> pre.tc] } :
         /\ tc' = done.tc
         /\ results' = [results EXCEPT ![b_i] = done.res]
         /\ handlerLog' = IF pre.phase = "invoke"
                          THEN Append(handlerLog, LogEntry(b_i, call))
                          ELSE handlerLog
         /\ metrics' =
              [metrics EXCEPT
                 !.cachedCalls = IF pre.hit THEN @ + 1 ELSE @,
                 !.failedCalls = IF done.res.err # Nil THEN @ + 1 ELSE @,
                 !.successfulCalls = IF done.res.err = Nil THEN @ + 1 ELSE @]
         /\ b_tally' =
              [skipped |-> IF done.res.err # Nil /\ StopsAfterFailure(te)
                           THEN b_tally.skipped + (Len(calls) - b_i)
                           ELSE b_tally.skipped,
               cached |-> IF done.res.cached THEN b_tally.cached + 1
                          ELSE b_tally.cached]
         /\ IF done.res.err # Nil /\ StopsAfterFailure(te)
            THEN /\ b_err' = SerialError(call, done.res.err)
                 /\ b_pc' = "returned"
                 /\ UNCHANGED b_i
            ELSE /\ b_i' = b_i + 1
                 /\ UNCHANGED <<b_err, b_pc>>
  /\ UNCHANGED <<te, now, b_count, calls, w_pc, w_local, errChan, doneChan>>

\* executeSerial's loop is over: it returns the results and no error.
SerialReturn ==
  /\ b_pc = "serial"
  /\ b_i > Len(calls)
  /\ b_pc' = "returned"
  /\ b_err' = Nil
  /\ UNCHANGED <<te, metrics, tc, now, b_count, calls, results, b_i, w_pc,
                 w_local, errChan, doneChan, handlerLog, b_tally>>

\* The slot of results the worker started for index i writes: each goroutine
\* captures its own copy of the loop variable.
ResultSlot_SharedLoopVariable(i) == Len(calls)

ResultSlot(i) == i

\* The counter a finished call increments: failedCalls or successfulCalls.
CounterOf(res) == IF res.err # Nil THEN "failedCalls" ELSE "successfulCalls"

\* Worker i runs executeSingleCall up to the handler lookup. A call that
\* returns from there has its result stored in results and the counter of its
\* outcome loaded; a cache hit first loads cachedCalls.
WorkerStart(i) ==
  /\ b_pc = "parallel"
  /\ w_pc[i] = "start"
  /\ \E order \in Permutations_(DOMAIN calls[i].args) :
       LET pre == PreCall(calls[i], tc, order, now) IN
       /\ tc' = pre.tc
       /\ IF pre.phase = "invoke"
          THEN /\ w_pc' = [w_pc EXCEPT ![i] = "invoke"]
               /\ UNCHANGED <<w_local, results>>
          ELSE IF pre.hit
          THEN /\ w_pc' = [w_pc EXCEPT ![i] = "hit"]
               /\ w_local' = [w_local EXCEPT ![i] =
                    [res |-> pre.res, loaded |-> metrics.cachedCalls]]
               /\ UNCHANGED results
          ELSE /\ w_pc' = [w_pc EXCEPT ![i] = "count"]
               /\ w_local' = [w_local EXCEPT ![i] =
                    [res |-> pre.res, loaded |-> metrics[CounterOf(pre.res)]]]
               /\ results' = [results EXCEPT ![ResultSlot(i)] = pre.res]
  /\ UNCHANGED <<te, metrics, now, b_pc, b_count, calls, b_err, b_i, errChan,
                 doneChan, handlerLog, b_tally>>

\* Worker i, after a cache hit: cachedCalls is written back incremented, the
\* result is stored in results and the counter of its outcome loaded.
WorkerHit(i) ==
  /\ b_pc = "parallel"
  /\ w_pc[i] = "hit"
  /\ LET res == w_local[i].res IN
     /\ metrics' = [metrics EXCEPT !.cachedCalls = w_local[i].loaded + 1]
     /\ results' = [results EXCEPT ![ResultSlot(i)] = res]
     /\ w_local' = [w_local EXCEPT ![i].loaded = metrics[CounterOf(res)]]
  /\ b_tally' = [b_tally EXCEPT !.cached = @ + 1]
  /\ w_pc' = [w_pc EXCEPT ![i] = "count"]
  /\ UNCHANGED <<te, tc, now, b_pc, b_count, calls, b_err, b_i, errChan,
                 doneChan, handlerLog>>

\* Worker i calls the handler and stores its outcome in the cache; the result
\* is stored in results and the counter of its outcome loaded.
WorkerInvoke(i) ==
  /\ b_pc = "parallel"
  /\ w_pc[i] = "invoke"
  /\ \E done \in Invoke(calls[i], tc, now) :
       /\ tc' = done.tc
       /\ results' = [results EXCEPT ![ResultSlot(i)] = done.res]
       /\ w_local' = [w_local EXCEPT ![i] =
            [res |-> done.res, loaded |-> metrics[CounterOf(done.res)]]]
  /\ handlerLog' = Append(handlerLog, LogEntry(i, calls[i]))
  /\ w_pc' = [w_pc EXCEPT ![i] = "count"]
  /\ UNCHANGED <<te, metrics, now, b_pc, b_count, calls, b_err, b_i, errChan,
                 doneChan, b_tally>>

\* Unbuffered error and done channels.
ChanCap_Unbuffered(batch) == 0

\* The capacity of errChan and of doneChan: make(chan ..., len(calls)).
ChanCap(batch) == Len(batch)

\* Whether worker i's sends complete: a send on a buffered channel blocks
\* while the buffer is full. errChan is not received from before every done
\* signal has arrived; doneChan is taken to hold every signal until the
\* collector has them all, the slowest collector there can be.
SendsComplete(i) ==
  /\ w_local[i].res.err # Nil => Len(errChan) < ChanCap(calls)
  /\ doneChan < ChanCap(calls)

\* Worker i writes the counter back incremented, sends the error of a failed
\* call on errChan and signals doneChan.
WorkerCount(i) ==
  /\ b_pc = "parallel"
  /\ w_pc[i] = "count"
  /\ SendsComplete(i)
  /\ LET res == w_local[i].res IN
     /\ metrics' = [metrics EXCEPT ![CounterOf(res)] = w_local[i].loaded + 1]
     /\ errChan' = IF res.err # Nil
                   THEN Append(errChan, ErrToolFailed(calls[i].name, res.err))
                   ELSE errChan
  /\ doneChan' = doneChan + 1
  /\ w_pc' = [w_pc EXCEPT ![i] = "done"]
  /\ UNCHANGED <<te, tc, now, b_pc, b_count, calls, results, b_err, b_i,
                 w_local, handlerLog, b_tally>>

\* executeParallel has received one done signal per call: errChan is closed
\* and, under stop-on-error, its first error returned.
ParallelReturn_OnFirstError ==
  /\ b_pc = "parallel"
  /\ \/ doneChan = Len(calls)
     \/ te.stopOnError /\ errChan # <<>>
  /\ b_err' = IF te.stopOnError /\ errChan # <<>> THEN Head(errChan) ELSE Nil
  /\ b_pc' = "returned"
  /\ doneChan' = 0
  /\ UNCHANGED <<te, metrics, tc, now, b_count, calls, results, b_i, w_pc,
                 w_local, errChan, handlerLog, b_tally>>

ParallelReturn ==
  /\ b_pc = "parallel"
  /\ doneChan = Len(calls)
  /\ b_err' = IF te.stopOnError /\ errChan # <<>> THEN Head(errChan) ELSE Nil
  /\ b_pc' = "returned"
  /\ doneChan' = 0
  /\ UNCHANGED <<te, metrics, tc, now, b_count, calls, results, b_i, w_pc,
                 w_local, errChan, handlerLog, b_tally>>

\* Time passes.
Tick ==
  /\ now < MaxClock
  /\ now' = now + 1
  /\ UNCHANGED <<te, metrics, tc, b_pc, b_count, calls, results, b_err, b_i,
                 w_pc, w_local, errChan, doneChan, handlerLog, b_tally>>


(***************************************************************************)
(* Round-trip loop (executeToolLoop of the Google and OpenAI providers)    *)
(***************************************************************************)

\* Default number of rounds.
DefaultMaxRounds == 5

\* Largest round override of a modelled call plan.
MaxRoundsBound == 2

\* A nil pointer field of the call plan.
Unset == "unset"
PtrBool == {Unset, "true", "false"}

\* plan.MaxToolRounds: unset, or a round count.
RoundOverrides ==
  { [set |-> FALSE, val |-> 0] } \cup [set : {TRUE}, val : 0 .. MaxRoundsBound]

\* The part of the call plan executeToolLoop reads; cache stands for
\* ToolCacheTTL > 0 && ToolCacheMaxSize > 0, ToolRetryConfig for
\* ToolRetryConfig # nil.
CallPlans ==
  [MaxToolRounds : RoundOverrides, ParallelTools : PtrBool,
   StopOnToolError : PtrBool, cache : BOOLEAN, ToolRetryConfig : BOOLEAN]

Providers == {"google", "openai"}

\* The tool-call batches a provider response can request.
LoopBatches ==
  { <<toolCallRequest("tool1", ArgsX)>>, <<toolCallRequest("tool2", ArgsX)>>,
    <<toolCallRequest("tool1", ArgsX), toolCallRequest("tool2", ArgsX)>> }

\* What one provider call can return: a transport error, a final answer, a
\* batch of tool calls, and for OpenAI a response without choices or a tool
\* call whose arguments are no valid JSON.
Responses(p) ==
  { [kind |-> "error", calls |-> <<>>], [kind |-> "final", calls |-> <<>>] }
  \cup { [kind |-> "tools", calls |-> b] : b \in LoopBatches }
  \cup IF p = "openai"
       THEN { [kind |-> "nochoices", calls |-> <<>>] }
            \cup { [kind |-> "badargs", calls |-> b] : b \in LoopBatches }
       ELSE {}

VARIABLES
  provider,     \* which provider's executeToolLoop runs
  plan,         \* the call plan
  loop_pc,      \* "round": at the loop head, "generate": before the provider
                \* call, "batch": in executeBatch, "done": returned, "idle"
  roundCount,   \* roundCount
  contents,     \* the conversation: currentContents / msgs
  response,     \* the provider response of the current round
  loop_ret,     \* what executeToolLoop returned: [result, err]
  genCalls,     \* number of provider generate calls made
  genTools      \* number of provider responses that requested tool calls

lvars == <<provider, plan, loop_pc, roundCount, contents, response, loop_ret,
           genCalls, genTools>>

\* The round limit the Google loop hands to WithMaxRounds.
GoogleMaxRounds(pl) ==
  IF pl.MaxToolRounds.set THEN pl.MaxToolRounds.val ELSE DefaultMaxRounds

\* The executor executeToolLoop builds for provider p from the plan.
LoopExecutor(p, pl) ==
  IF p = "google"
  THEN [parallel |-> IF pl.ParallelTools # Unset THEN pl.ParallelTools = "true"
                     ELSE FALSE,
        stopOnError |-> IF pl.StopOnToolError # Unset
                        THEN pl.StopOnToolError = "true" ELSE TRUE,
        cache |-> pl.cache,
        validator |-> TRUE,
        retry |-> pl.ToolRetryConfig,
        maxRounds |-> GoogleMaxRounds(pl)]
  ELSE [parallel |-> FALSE, stopOnError |-> TRUE, cache |-> FALSE,
        validator |-> FALSE, retry |-> FALSE, maxRounds |-> 5]

ErrRoundLimit(n) == [kind |-> "ToolRoundLimitExceeded", maxRounds |-> n]
ErrTransport == [kind |-> "transport"]
ErrNoChoices == [kind |-> "no choices"]
ErrInvalidArgs == [kind |-> "invalid tool call args"]

InitialContents == << [role |-> "user"] >>

LoopInit ==
  /\ provider \in Providers
  /\ plan \in CallPlans
  /\ loop_pc = "round"
  /\ roundCount = 0
  /\ contents = InitialContents
  /\ response = [kind |-> "none", calls |-> <<>>]
  /\ loop_ret = [result |-> Nil, err |-> Nil]
  /\ genCalls = 0
  /\ genTools = 0

LoopIdle ==
  /\ provider = "google"
  /\ plan = [MaxToolRounds |-> [set |-> FALSE, val |-> 0], ParallelTools |-> Unset,
             StopOnToolError |-> Unset, cache |-> FALSE, ToolRetryConfig |-> FALSE]
  /\ loop_pc = "idle"
  /\ roundCount = 0
  /\ contents = <<>>
  /\ response = [kind |-> "none", calls |-> <<>>]
  /\ loop_ret = [result |-> Nil, err |-> Nil]
  /\ genCalls = 0
  /\ genTools = 0

\* The test `roundCount > executor.maxRounds` at the loop head.
RoundLimitExceeded_OffByOne(count, max) == count > max + 1

RoundLimitExceeded(count, max) == count > max

\* The loop head: the round is counted and checked against the limit.
LoopRound ==
  /\ loop_pc = "round"
  /\ roundCount' = roundCount + 1
  /\ IF RoundLimitExceeded(roundCount + 1, te.maxRounds)
     THEN /\ loop_ret' = [result |-> Nil, err |-> ErrRoundLimit(te.maxRounds)]
          /\ loop_pc' = "done"
     ELSE /\ loop_pc' = "generate"
          /\ UNCHANGED loop_ret
  /\ UNCHANGED <<provider, plan, contents, response, genCalls, genTools>>
  /\ UNCHANGED evars

\* LoopGenerate with a loop that starts another round after a response
\* without tool calls.
LoopGenerate_FinalContinues ==
  /\ loop_pc = "generate"
  /\ genCalls' = genCalls + 1
  /\ \E resp \in Responses(provider) :
       /\ response' = resp
       /\ CASE resp.kind = "error" ->
                 /\ loop_ret' = [result |-> Nil, err |-> ErrTransport]
                 /\ loop_pc' = "done"
                 /\ UNCHANGED <<contents, genTools, evars>>
            [] resp.kind = "nochoices" ->
                 /\ loop_ret' = [result |-> Nil, err |-> ErrNoChoices]
                 /\ loop_pc' = "done"
                 /\ UNCHANGED <<contents, genTools, evars>>
            [] resp.kind = "final" ->
                 /\ loop_pc' = "round"
                 /\ UNCHANGED <<loop_ret, contents, genTools, evars>>
            [] resp.kind = "badargs" ->
                 /\ contents' = Append(contents, [role |-> "assistant",
                                                  calls |-> resp.calls])
                 /\ genTools' = genTools + 1
                 /\ loop_ret' = [result |-> Nil, err |-> ErrInvalidArgs]
                 /\ loop_pc' = "done"
                 /\ UNCHANGED evars
            [] resp.kind = "tools" ->
                 /\ contents' = IF provider = "openai"
                                THEN Append(contents, [role |-> "assistant",
                                                       calls |-> resp.calls])
                                ELSE contents
                 /\ genTools' = genTools + 1
                 /\ BeginBatch(resp.calls)
                 /\ loop_pc' = "batch"
                 /\ UNCHANGED loop_ret
  /\ UNCHANGED <<provider, plan, roundCount>>

\* The provider call of the round and what follows up to executeBatch: an
\* error or a final answer is returned, requested tool calls are handed to
\* the executor (OpenAI appends the assistant message and parses the
\* arguments first).
LoopGenerate ==
  /\ loop_pc = "generate"
  /\ genCalls' = genCalls + 1
  /\ \E resp \in Responses(provider) :
       /\ response' = resp
       /\ CASE resp.kind = "error" ->
                 /\ loop_ret' = [result |-> Nil, err |-> ErrTransport]
                 /\ loop_pc' = "done"
                 /\ UNCHANGED <<contents, genTools, evars>>
            [] resp.kind = "nochoices" ->
                 /\ loop_ret' = [result |-> Nil, err |-> ErrNoChoices]
                 /\ loop_pc' = "done"
                 /\ UNCHANGED <<contents, genTools, evars>>
            [] resp.kind = "final" ->
                 /\ loop_ret' = [result |-> [kind |-> "answer", round |-> roundCount],
                                 err |-> Nil]
                 /\ loop_pc' = "done"
                 /\ UNCHANGED <<contents, genTools, evars>>
            [] resp.kind = "badargs" ->
                 /\ contents' = Append(contents, [role |-> "assistant",
                                                  calls |-> resp.calls])
                 /\ genTools' = genTools + 1
                 /\ loop_ret' = [result |-> Nil, err |-> ErrInvalidArgs]
                 /\ loop_pc' = "done"
                 /\ UNCHANGED evars
            [] resp.kind = "tools" ->
                 /\ contents' = IF provider = "openai"
                                THEN Append(contents, [role |-> "assistant",
                                                       calls |-> resp.calls])
                                ELSE contents
                 /\ genTools' = genTools + 1
                 /\ BeginBatch(resp.calls)
                 /\ loop_pc' = "batch"
                 /\ UNCHANGED loop_ret
  /\ UNCHANGED <<provider, plan, roundCount>>

\* The tool-result turns appended after a batch: Google appends the model
\* turn and one user turn with a function response per result, OpenAI one
\* tool message per result.
\* ResultTurns with the results paired to the calls in reverse.
ResultTurns_Reversed(p, resp, res, round) ==
  IF p = "google"
  THEN << [role |-> "model", calls |-> resp.calls],
          [role |-> "user",
           parts |-> [i \in 1 .. Len(res) |->
                        [name |-> resp.calls[i].name,
                         response |-> res[Len(res) + 1 - i].result]]] >>
  ELSE [i \in 1 .. Len(res) |->
          [role |-> "tool", content |-> res[Len(res) + 1 - i].result,
           name |-> res[i].name, id |-> <<round, i>>]]

ResultTurns(p, resp, res, round) ==
  IF p = "google"
  THEN << [role |-> "model", calls |-> resp.calls],
          [role |-> "user",
           parts |-> [i \in 1 .. Len(res) |->
                        [name |-> resp.calls[i].name, response |-> res[i].result]]] >>
  ELSE [i \in 1 .. Len(res) |->
          [role |-> "tool", content |-> res[i].result, name |-> res[i].name,
           id |-> <<round, i>>]]

\* executeBatch has returned: its error ends the loop, otherwise the results
\* are appended to the conversation and the next round begins.
LoopAfterBatch ==
  /\ loop_pc = "batch"
  /\ b_pc = "returned"
  /\ IF b_err # Nil
     THEN /\ loop_ret' = [result |-> Nil, err |-> b_err]
          /\ loop_pc' = "done"
          /\ UNCHANGED contents
     ELSE /\ contents' = contents \o ResultTurns(provider, response, results, roundCount)
          /\ loop_pc' = "round"
          /\ UNCHANGED loop_ret
  /\ b_pc' = "idle"
  /\ UNCHANGED <<provider, plan, roundCount, response, genCalls, genTools>>
  /\ UNCHANGED <<te, metrics, tc, now, b_count, calls, results, b_err, b_i,
                 w_pc, w_local, errChan, doneChan, handlerLog, b_tally>>


(***************************************************************************)
(* Stream orchestrator (streamOrchestrator)                                *)
(***************************************************************************)

\* Capacity of the event channel (opts.BufferSize).
BufferSize == 2

\* Most stream.Recv calls (provider results) of one session before the
\* provider ends the stream.
MaxRecv == 1

\* Most text chunks the provider stream yields after its first MaxRecv
\* results.
MaxLateChunks == 1

\* Number of submitToolResult calls the consumer makes.
MaxSubmits == 2

StreamModes == {"auto", "pause", "parallel"}

\* A tool call of a batch: its identifier, its tool and its position in the
\* batch (the index of the OpenAI fragment, the slice position for Google).
StreamToolCall(id, name, index) == [id |-> id, name |-> name, index |-> index]

\* The tool-call batches a provider's stream can request. OpenAI sends an
\* identifier with each call; for Google the identifier is the tool name.
\* Tool "b" has no handler.
StreamBatches(p) ==
  IF p = "openai"
  THEN { <<StreamToolCall("id1", "a", 1)>>,
         <<StreamToolCall("id1", "a", 1), StreamToolCall("id2", "a", 2)>>,
         <<StreamToolCall("id1", "b", 1)>> }
  ELSE { <<StreamToolCall("a", "a", 1)>>,
         <<StreamToolCall("a", "a", 1), StreamToolCall("a", "a", 2)>>,
         <<StreamToolCall("b", "b", 1)>> }

StreamHandlers == {"a"}

\* Identifiers the consumer submits results for.
SubmitIds(p) == IF p = "openai" THEN {"id1", "id2"} ELSE {"a", "b"}

\* What stream.Recv (or the Google iterator) yields next.
StreamItems(p) ==
  { [kind |-> "chunk", calls |-> <<>>], [kind |-> "usage", calls |-> <<>>],
    [kind |-> "eof", calls |-> <<>>], [kind |-> "error", calls |-> <<>>] }
  \cup { [kind |-> "tools", calls |-> b] : b \in StreamBatches(p) }

VARIABLES
  s_provider,   \* req.Provider
  s_mode,       \* opts.ToolExecutionMode
  s_pc,         \* position of the session goroutine (run)
  s_ctxDone,    \* the session context is cancelled
  events,       \* the event channel's buffer
  closeCount,   \* number of times the event channel was closed
  sent,         \* every event placed on the channel, in order
  s_recv,       \* number of results the provider stream has yielded
  s_tools,      \* tool calls of the current batch still to handle
  s_cur,        \* outcome of the current tool call: [result, err]
  s_err,        \* the error run hands to sendError
  toolWait,     \* toolWait: identifier -> channel
  chans,        \* the rendezvous channels made so far: each one's buffer
  waitLog,      \* finished waitForToolResult calls: [id, ch, result, err]
  subs,         \* the consumer's submitToolResult calls: [pc, id, ch, ret]
  produced,     \* every event handed to a send of the session, in order
  received      \* every event the consumer received, in order

svars == <<s_provider, s_mode, s_pc, s_ctxDone, events, closeCount, sent,
           s_recv, s_tools, s_cur, s_err, toolWait, chans, waitLog, subs,
           produced, received>>

Event(type, detail) == [type |-> type, detail |-> detail]

ErrNoPendingCall(id) == [kind |-> "NoPendingCall", id |-> id]
ErrProvider == [kind |-> "provider"]
ErrStream == [kind |-> "transport"]
ErrHandler == [kind |-> "tool failed"]

\* A submitToolResult call not made yet.
NoSubmit == [pc |-> "idle", id |-> "", ch |-> 0, ret |-> Nil]

\* The value submission j hands over.
SubmitValue(j) == [kind |-> "submitted", by |-> j]

StreamStart ==
  /\ s_ctxDone = FALSE
  /\ events = <<>>
  /\ closeCount = 0
  /\ sent = <<>>
  /\ s_recv = 0
  /\ s_tools = <<>>
  /\ s_cur = [result |-> Nil, err |-> Nil]
  /\ s_err = Nil
  /\ toolWait = <<>>
  /\ chans = <<>>
  /\ waitLog = <<>>
  /\ subs = [j \in 1 .. MaxSubmits |-> NoSubmit]
  /\ produced = <<>>
  /\ received = <<>>

StreamInit ==
  /\ s_provider \in Providers
  /\ s_mode \in StreamModes
  /\ s_pc = "setup"
  /\ StreamStart

StreamIdle ==
  /\ s_provider = "google"
  /\ s_mode = "auto"
  /\ s_pc = "idle"
  /\ StreamStart

\* A `select` between <-so.ctx.Done() and a send of ev on so.events, as the
\* send functions make it: either ready case can be taken.
SelectSend_DropWhenFull(ev) ==
  /\ produced' = Append(produced, ev)
  /\ \/ /\ Len(events) < BufferSize
        /\ events' = Append(events, ev)
        /\ sent' = Append(sent, ev)
     \/ /\ s_ctxDone \/ Len(events) >= BufferSize
        /\ UNCHANGED <<events, sent>>

SelectSend(ev) ==
  /\ produced' = Append(produced, ev)
  /\ \/ /\ Len(events) < BufferSize
        /\ events' = Append(events, ev)
        /\ sent' = Append(sent, ev)
     \/ /\ s_ctxDone
        /\ UNCHANGED <<events, sent>>

\* A plain send of ev on so.events.
BlockingSend(ev) ==
  /\ Len(events) < BufferSize
  /\ produced' = Append(produced, ev)
  /\ events' = Append(events, ev)
  /\ sent' = Append(sent, ev)

\* run up to the provider's stream: ensureProvider and the stream request
\* succeed or fail.
StreamSetup ==
  /\ s_pc = "setup"
  /\ \E ok \in BOOLEAN :
       IF ok THEN s_pc' = "recv" /\ UNCHANGED s_err
       ELSE s_pc' = "error" /\ s_err' = ErrProvider
  /\ UNCHANGED <<s_provider, s_mode, s_ctxDone, events, closeCount, sent,
                 s_recv, s_tools, s_cur, toolWait, chans, waitLog, subs,
                 produced, received>>

\* The provider stream yields its next result.
StreamRecv ==
  /\ s_pc = "recv"
  /\ \E item \in StreamItems(s_provider) :
       /\ \/ s_recv < MaxRecv
          \/ item.kind \in {"eof", "error"}
          \/ item.kind = "chunk" /\ s_recv < MaxRecv + MaxLateChunks
       /\ s_tools' = item.calls
       /\ s_pc' = CASE item.kind = "chunk" -> "chunk"
                    [] item.kind = "usage" -> "usage"
                    [] item.kind = "tools" -> "toolreq"
                    [] item.kind = "eof" -> "done"
                    [] OTHER -> "error"
       /\ s_err' = IF item.kind = "error" THEN ErrStream ELSE s_err
  /\ s_recv' = s_recv + 1
  /\ UNCHANGED <<s_provider, s_mode, s_ctxDone, events, closeCount, sent,
                 s_cur, toolWait, chans, waitLog, subs,
                 produced, received>>

sendChunk ==
  /\ s_pc = "chunk"
  /\ SelectSend(Event("chunk", s_recv))
  /\ s_pc' = "recv"
  /\ UNCHANGED <<s_provider, s_mode, s_ctxDone, closeCount, s_recv, s_tools,
                 s_cur, s_err, toolWait, chans, waitLog, subs,
                 received>>

sendUsage ==
  /\ s_pc = "usage"
  /\ SelectSend(Event("usage", s_recv))
  /\ s_pc' = "recv"
  /\ UNCHANGED <<s_provider, s_mode, s_ctxDone, closeCount, s_recv, s_tools,
                 s_cur, s_err, toolWait, chans, waitLog, subs,
                 received>>

\* sendToolCallRequest announcing the last call of the batch first.
sendToolCallRequest_LastFirst ==
  /\ s_pc = "toolreq"
  /\ SelectSend(Event("toolreq", s_tools[Len(s_tools)]))
  /\ s_pc' = IF s_mode = "pause" THEN "register" ELSE "toolexec"
  /\ UNCHANGED <<s_provider, s_mode, s_ctxDone, closeCount, s_recv, s_tools,
                 s_cur, s_err, toolWait, chans, waitLog, subs,
                 received>>

\* The request event of the next tool call; then the handler is called
\* (auto, parallel) or the result waited for (pause).
sendToolCallRequest ==
  /\ s_pc = "toolreq"
  /\ SelectSend(Event("toolreq", Head(s_tools)))
  /\ s_pc' = IF s_mode = "pause" THEN "register" ELSE "toolexec"
  /\ UNCHANGED <<s_provider, s_mode, s_ctxDone, closeCount, s_recv, s_tools,
                 s_cur, s_err, toolWait, chans, waitLog, subs,
                 received>>

\* Auto and parallel mode: the handler of the call is looked up and called.
StreamToolExec ==
  /\ s_pc = "toolexec"
  /\ IF Head(s_tools).name \notin StreamHandlers
     THEN /\ s_err' = ErrNoHandler(Head(s_tools).name)
          /\ s_pc' = "error"
          /\ UNCHANGED s_cur
     ELSE /\ \E out \in { [result |-> [kind |-> "result"], err |-> Nil],
                          [result |-> Nil, err |-> ErrHandler] } : s_cur' = out
          /\ s_pc' = "toolres"
          /\ UNCHANGED s_err
  /\ UNCHANGED <<s_provider, s_mode, s_ctxDone, events, closeCount, sent,
                 s_recv, s_tools, toolWait, chans, waitLog, subs,
                 produced, received>>

\* waitForToolResult: a channel of capacity 1 is made and stored in toolWait.
WaitRegister ==
  /\ s_pc = "register"
  /\ chans' = Append(chans, <<>>)
  /\ toolWait' = With(toolWait, Head(s_tools).id, Len(chans) + 1)
  /\ s_pc' = "waiting"
  /\ UNCHANGED <<s_provider, s_mode, s_ctxDone, events, closeCount, sent,
                 s_recv, s_tools, s_cur, s_err, waitLog, subs,
                 produced, received>>

\* The waiting select: a submitted value is received, or the context is
\* done; the deferred delete removes the identifier from toolWait.
WaitReturn ==
  /\ s_pc = "waiting"
  /\ LET id == Head(s_tools).id
         ch == toolWait[id]
     IN \/ /\ chans[ch] # <<>>
           /\ s_cur' = [result |-> Head(chans[ch]), err |-> Nil]
           /\ chans' = [chans EXCEPT ![ch] = Tail(@)]
           /\ waitLog' = Append(waitLog, [id |-> id, ch |-> ch,
                                          result |-> Head(chans[ch]), err |-> Nil])
           /\ toolWait' = Without(toolWait, id)
        \/ /\ s_ctxDone
           /\ s_cur' = [result |-> Nil, err |-> ErrContext]
           /\ waitLog' = Append(waitLog, [id |-> id, ch |-> ch,
                                          result |-> Nil, err |-> ErrContext])
           /\ toolWait' = Without(toolWait, id)
           /\ UNCHANGED chans
  /\ s_pc' = "toolres"
  /\ UNCHANGED <<s_provider, s_mode, s_ctxDone, events, closeCount, sent,
                 s_recv, s_tools, s_err, subs,
                 produced, received>>

\* Whether the tool-call handler returns the call's error after the result
\* event: always for Google, outside pause mode for OpenAI.
ReturnsToolError_Never(p, mode, err) == FALSE

ReturnsToolError(p, mode, err) ==
  err # Nil /\ (p = "google" \/ mode # "pause")

\* The result event of the current tool call; then its error ends the
\* session or the next call (or the stream) goes on.
sendToolCallResult ==
  /\ s_pc = "toolres"
  /\ SelectSend(Event("toolres", Head(s_tools)))
  /\ IF ReturnsToolError(s_provider, s_mode, s_cur.err)
     THEN /\ s_err' = s_cur.err
          /\ s_pc' = "error"
          /\ UNCHANGED s_tools
     ELSE /\ s_tools' = Tail(s_tools)
          /\ s_pc' = IF Tail(s_tools) = <<>> THEN "recv" ELSE "toolreq"
          /\ UNCHANGED s_err
  /\ UNCHANGED <<s_provider, s_mode, s_ctxDone, closeCount, s_recv, s_cur,
                 toolWait, chans, waitLog, subs,
                 received>>

\* run hands the error to sendError and returns.
sendError ==
  /\ s_pc = "error"
  /\ SelectSend(Event("error", s_err))
  /\ s_pc' = "close"
  /\ UNCHANGED <<s_provider, s_mode, s_ctxDone, closeCount, s_recv, s_tools,
                 s_cur, s_err, toolWait, chans, waitLog, subs,
                 received>>

\* run sends the completion event with a plain send and returns.
SendDone ==
  /\ s_pc = "done"
  /\ BlockingSend(Event("done", 0))
  /\ s_pc' = "close"
  /\ UNCHANGED <<s_provider, s_mode, s_ctxDone, closeCount, s_recv, s_tools,
                 s_cur, s_err, toolWait, chans, waitLog, subs,
                 received>>

\* The deferred close(so.events) of run.
CloseEvents_OnSuccessOnly ==
  /\ s_pc = "close"
  /\ closeCount' = IF s_err = Nil THEN closeCount + 1 ELSE closeCount
  /\ s_pc' = "closed"
  /\ UNCHANGED <<s_provider, s_mode, s_ctxDone, events, sent, s_recv, s_tools,
                 s_cur, s_err, toolWait, chans, waitLog, subs,
                 produced, received>>

CloseEvents ==
  /\ s_pc = "close"
  /\ closeCount' = closeCount + 1
  /\ s_pc' = "closed"
  /\ UNCHANGED <<s_provider, s_mode, s_ctxDone, events, sent, s_recv, s_tools,
                 s_cur, s_err, toolWait, chans, waitLog, subs,
                 produced, received>>

\* The consumer receives the next event.
Receive ==
  /\ events # <<>>
  /\ received' = Append(received, Head(events))
  /\ events' = Tail(events)
  /\ UNCHANGED <<s_provider, s_mode, s_pc, s_ctxDone, closeCount, sent, s_recv,
                 s_tools, s_cur, s_err, toolWait, chans, waitLog, subs,
                 produced>>

\* The consumer calls Cancel (or the caller's context is cancelled).
Cancel ==
  /\ s_pc # "idle"
  /\ ~s_ctxDone
  /\ s_ctxDone' = TRUE
  /\ UNCHANGED <<s_provider, s_mode, s_pc, events, closeCount, sent, s_recv,
                 s_tools, s_cur, s_err, toolWait, chans, waitLog, subs,
                 produced, received>>

\* submitToolResult(id, SubmitValue(j)) up to the unlock: the channel of id is
\* looked up; an identifier not in toolWait fails with NoPendingCall.
SubmitLookup(j) ==
  /\ s_pc # "idle"
  /\ subs[j].pc = "idle"
  /\ \A k \in 1 .. j - 1 : subs[k].pc # "idle"
  /\ \E id \in SubmitIds(s_provider) :
       subs' = [subs EXCEPT ![j] =
         IF id \in DOMAIN toolWait
         THEN [pc |-> "send", id |-> id, ch |-> toolWait[id], ret |-> Nil]
         ELSE [pc |-> "returned", id |-> id, ch |-> 0, ret |-> ErrNoPendingCall(id)]]
  /\ UNCHANGED <<s_provider, s_mode, s_pc, s_ctxDone, events, closeCount, sent,
                 s_recv, s_tools, s_cur, s_err, toolWait, chans, waitLog,
                 produced, received>>

\* The select of submitToolResult: the value is sent on the channel (which
\* holds one value), or the context is done.
SubmitSelect(j) ==
  /\ subs[j].pc = "send"
  /\ \/ /\ Len(chans[subs[j].ch]) < 1
        /\ chans' = [chans EXCEPT ![subs[j].ch] = Append(@, SubmitValue(j))]
        /\ subs' = [subs EXCEPT ![j].pc = "returned", ![j].ret = [kind |-> "delivered"]]
     \/ /\ s_ctxDone
        /\ subs' = [subs EXCEPT ![j].pc = "returned", ![j].ret = ErrContext]
        /\ UNCHANGED chans
  /\ UNCHANGED <<s_provider, s_mode, s_pc, s_ctxDone, events, closeCount, sent,
                 s_recv, s_tools, s_cur, s_err, toolWait, waitLog,
                 produced, received>>


(***************************************************************************)
(* Result cache under concurrent callers (ToolCache.Get, ToolCache.Set)    *)
(***************************************************************************)

\* Number of goroutines calling the cache.
CacheClients == 2

\* Most Get and Set calls made on one cache.
MaxCacheOps == 3

CacheNames == {"add", "sub"}

\* Argument values of the cache's callers: the int 2, the float64 2.0 and
\* 2.5, and a channel.
CacheValues ==
  { [kind |-> "int", n |-> 2], [kind |-> "float64", twice |-> 4],
    [kind |-> "float64", twice |-> 5], [kind |-> "chan"] }

\* The assignments args[k] = v a caller builds its argument map from.
CacheAssignments ==
  { <<"x", v>> : v \in CacheValues }
  \cup { <<"y", [kind |-> "float64", twice |-> 4]>> }

\* The orders in which a caller makes up to two assignments to distinct
\* keys; the maps of two keys are those with the int under "x", built in
\* either order.
CacheInsertions ==
  { q \in SeqsUpTo(CacheAssignments, 2) :
      /\ \A a, b \in DOMAIN q : a # b => q[a][1] # q[b][1]
      /\ Len(q) = 2 => \A a \in DOMAIN q : q[a][1] = "x" => q[a][2].kind = "int" }

\* The Go map the assignments of q leave.
MapOf(q) ==
  [f \in { q[a][1] : a \in DOMAIN q } |->
     q[CHOOSE a \in DOMAIN q : q[a][1] = f][2]]

VARIABLES
  c_tc,         \* the ToolCache
  c_now,        \* the clock
  c_procs,      \* each caller's call in progress
  c_ops,        \* number of calls started
  c_gets,       \* number of Get calls that computed a key and returned
  c_stored      \* every key Set has stored under

cvars == <<c_tc, c_now, c_procs, c_ops, c_gets, c_stored>>

\* A caller between calls. In a call: pc is "get" (Get before its RLock),
\* "count" (Get holding the read lock, the counter loaded) or "set" (Set
\* before its Lock); built is the order the argument map was built in.
NoCall ==
  [pc |-> "idle", name |-> "", built |-> <<>>, found |-> FALSE, result |-> Nil,
   err |-> Nil, counter |-> "", loaded |-> 0]

\* What a caller stores for a call: it names the call it came from.
ResultOf(name, q) == [kind |-> "result", of |-> name, built |-> q]

CacheInit ==
  /\ c_tc \in { EmptyCache(CacheTTL, m) : m \in 1 .. MaxCacheSize }
  /\ c_now = 1
  /\ c_procs = [p \in 1 .. CacheClients |-> NoCall]
  /\ c_ops = 0
  /\ c_gets = 0
  /\ c_stored = {}

CacheIdle ==
  /\ c_tc = EmptyCache(0, 0)
  /\ c_now = 1
  /\ c_procs = <<>>
  /\ c_ops = 0
  /\ c_gets = 0
  /\ c_stored = {}

\* Caller p calls Get or Set; cacheKey runs before any lock is taken, and a
\* call whose arguments json.Marshal rejects returns at once (Get with
\* found = false and no count, Set without storing).
CacheCall(p) ==
  /\ c_procs[p].pc = "idle"
  /\ \A k \in 1 .. p - 1 : c_procs[k].pc # "idle"
  /\ c_ops < MaxCacheOps
  /\ c_ops' = c_ops + 1
  /\ \E op \in {"get", "set"}, name \in CacheNames, q \in CacheInsertions :
       c_procs' = [c_procs EXCEPT ![p] =
         IF Marshalable(MapOf(q))
         THEN [NoCall EXCEPT !.pc = op, !.name = name, !.built = q]
         ELSE NoCall]
  /\ UNCHANGED <<c_tc, c_now, c_gets, c_stored>>

\* Get under the read lock, up to the load of `tc.hits++` or `tc.misses++`:
\* the entry is looked up and checked against the TTL. Other readers can hold
\* the read lock at the same time.
GetLookup(p) ==
  /\ c_procs[p].pc = "get"
  /\ LET got == CacheGet(c_tc, c_procs[p].name, MapOf(c_procs[p].built), c_now)
         counter == IF got.found THEN "hits" ELSE "misses"
     IN c_procs' = [c_procs EXCEPT ![p] =
          [@ EXCEPT !.pc = "count", !.found = got.found, !.result = got.result,
                    !.err = got.err, !.counter = counter,
                    !.loaded = c_tc[counter]]]
  /\ UNCHANGED <<c_tc, c_now, c_ops, c_gets, c_stored>>

\* The store of the increment; Get releases the read lock and returns.
GetCount(p) ==
  /\ c_procs[p].pc = "count"
  /\ c_tc' = [c_tc EXCEPT ![c_procs[p].counter] = c_procs[p].loaded + 1]
  /\ c_procs' = [c_procs EXCEPT ![p] = NoCall]
  /\ c_gets' = c_gets + 1
  /\ UNCHANGED <<c_now, c_ops, c_stored>>

\* Set under the write lock, which no reader holds meanwhile.
SetStore(p) ==
  /\ c_procs[p].pc = "set"
  /\ \A k \in DOMAIN c_procs : c_procs[k].pc # "count"
  /\ LET name == c_procs[p].name
         args == MapOf(c_procs[p].built)
     IN /\ c_tc' \in CacheSet(c_tc, name, args,
                              ResultOf(name, c_procs[p].built), Nil, c_now)
        /\ c_stored' = c_stored \cup {cacheKey(name, args)}
  /\ c_procs' = [c_procs EXCEPT ![p] = NoCall]
  /\ UNCHANGED <<c_now, c_ops, c_gets>>

\* Time passes.
CacheTick ==
  /\ c_now < MaxClock
  /\ c_now' = c_now + 1
  /\ UNCHANGED <<c_tc, c_procs, c_ops, c_gets, c_stored>>


(***************************************************************************)
(* Tool-call accumulator of the OpenAI stream (streamOpenAI)               *)
(***************************************************************************)

\* Most tool-call fragments of one round.
MaxFragments == 3

\* Largest call index a fragment carries.
MaxCallIndex == 2

\* A tool-call fragment of a delta: the call index, and the identifier, name
\* and piece of argument text it carries. A piece of argument text is a
\* sequence of tokens, so that concatenation is \o.
Fragments ==
  [index : 0 .. MaxCallIndex, id : {"id1", "id2"}, name : {"a", "b"},
   arguments : {<<"p">>, <<"q">>}]

VARIABLES
  a_frags,      \* the fragments the provider sends before the finish marker
  a_pos,        \* number of fragments received so far
  a_toolCalls,  \* toolCalls: call index -> accumulated call
  a_calls,      \* the slice handleOpenAIToolCalls executes
  a_rounds,     \* number of times an accumulated set was executed
  a_pc          \* "recv", "executed", "panic" (runtime error), "idle"

avars == <<a_frags, a_pos, a_toolCalls, a_calls, a_rounds, a_pc>>

AccumInit ==
  /\ a_frags \in { q \in SeqsUpTo(Fragments, MaxFragments) : Len(q) > 0 }
  /\ a_pos = 0
  /\ a_toolCalls = <<>>
  /\ a_calls = <<>>
  /\ a_rounds = 0
  /\ a_pc = "recv"

AccumIdle ==
  /\ a_frags = <<>>
  /\ a_pos = 0
  /\ a_toolCalls = <<>>
  /\ a_calls = <<>>
  /\ a_rounds = 0
  /\ a_pc = "idle"

\* The accumulator after a fragment: the first fragment of an index makes
\* the call, a later one appends its argument text.
Accumulate(toolCalls, frag) ==
  IF frag.index \notin DOMAIN toolCalls
  THEN With(toolCalls, frag.index,
            [id |-> frag.id, name |-> frag.name, arguments |-> frag.arguments])
  ELSE [toolCalls EXCEPT ![frag.index].arguments = @ \o frag.arguments]

\* A delta with a tool-call fragment arrives.
AccumDelta ==
  /\ a_pc = "recv"
  /\ a_pos < Len(a_frags)
  /\ a_toolCalls' = Accumulate(a_toolCalls, a_frags[a_pos + 1])
  /\ a_pos' = a_pos + 1
  /\ UNCHANGED <<a_frags, a_calls, a_rounds, a_pc>>

\* The conversion of the accumulated map to a slice in handleOpenAIToolCalls:
\* a slice of len(toolCalls) elements is made and calls[idx] assigned for
\* every index of the map; an index outside the slice is a runtime error.
CallSlice(toolCalls) ==
  LET n == Cardinality(DOMAIN toolCalls)
  IN IF \E idx \in DOMAIN toolCalls : idx < 0 \/ idx >= n
     THEN [panic |-> TRUE, calls |-> <<>>]
     ELSE [panic |-> FALSE, calls |-> [i \in 1 .. n |-> toolCalls[i - 1]]]

\* The finish marker tool_calls arrives with a non-empty accumulator: the
\* accumulated set is handed to handleOpenAIToolCalls and the accumulator
\* replaced by an empty one.
AccumFinish ==
  /\ a_pc = "recv"
  /\ a_pos = Len(a_frags)
  /\ a_toolCalls # <<>>
  /\ LET slice == CallSlice(a_toolCalls)
     IN IF slice.panic
        THEN /\ a_pc' = "panic"
             /\ UNCHANGED <<a_toolCalls, a_calls, a_rounds>>
        ELSE /\ a_calls' = slice.calls
             /\ a_rounds' = a_rounds + 1
             /\ a_toolCalls' = <<>>
             /\ a_pc' = "executed"
  /\ UNCHANGED <<a_frags, a_pos>>


(***************************************************************************)
(* Specifications: one per component, the other components at rest         *)
(***************************************************************************)

vars == <<vvars, rvars, evars, lvars, svars, cvars, avars>>

\* ToolValidator.ValidateCall on one call.
InitValidate == ValidatorInit /\ RetryIdle /\ ExecIdle /\ LoopIdle /\ StreamIdle /\ CacheIdle /\ AccumIdle
NextValidate ==
  \/ Validate /\ UNCHANGED <<rvars, evars, lvars, svars, cvars, avars>>
  \/ ValidateAgain /\ UNCHANGED <<rvars, evars, lvars, svars, cvars, avars>>
SpecValidate == InitValidate /\ [][NextValidate]_vars

\* One call of a handler wrapped by RetryableToolHandler.
InitRetry == ValidatorIdle /\ RetryInit /\ ExecIdle /\ LoopIdle /\ StreamIdle /\ CacheIdle /\ AccumIdle
NextRetry ==
  \/ RetryAttempt /\ UNCHANGED <<vvars, evars, lvars, svars, cvars, avars>>
  \/ RetryBackoffElapsed /\ UNCHANGED <<vvars, evars, lvars, svars, cvars, avars>>
  \/ RetryBackoffCancelled /\ UNCHANGED <<vvars, evars, lvars, svars, cvars, avars>>
  \/ RetryExhausted /\ UNCHANGED <<vvars, evars, lvars, svars, cvars, avars>>
  \/ RetryCtxCancel /\ UNCHANGED <<vvars, evars, lvars, svars, cvars, avars>>
SpecRetry == InitRetry /\ [][NextRetry]_vars

\* The same call, with the wrapper's goroutine scheduled whenever it can take
\* a step: a select with a ready case returns, and the loop goes on.
RetryWrapperStep ==
  \/ RetryAttempt /\ UNCHANGED <<vvars, evars, lvars, svars, cvars, avars>>
  \/ RetryBackoffElapsed /\ UNCHANGED <<vvars, evars, lvars, svars, cvars, avars>>
  \/ RetryBackoffCancelled /\ UNCHANGED <<vvars, evars, lvars, svars, cvars, avars>>
  \/ RetryExhausted /\ UNCHANGED <<vvars, evars, lvars, svars, cvars, avars>>
SpecRetryFair == InitRetry /\ [][NextRetry]_vars /\ WF_vars(RetryWrapperStep)

\* One ToolExecutor handed batches by its caller.
InitExec == ValidatorIdle /\ RetryIdle /\ ExecInit /\ LoopIdle /\ StreamIdle /\ CacheIdle /\ AccumIdle
NextExec ==
  \/ StartBatch /\ UNCHANGED <<vvars, rvars, lvars, svars, cvars, avars>>
  \/ SerialStep /\ UNCHANGED <<vvars, rvars, lvars, svars, cvars, avars>>
  \/ SerialReturn /\ UNCHANGED <<vvars, rvars, lvars, svars, cvars, avars>>
  \/ \E i \in DOMAIN calls : WorkerStart(i) /\ UNCHANGED <<vvars, rvars, lvars, svars, cvars, avars>>
  \/ \E i \in DOMAIN calls : WorkerHit(i) /\ UNCHANGED <<vvars, rvars, lvars, svars, cvars, avars>>
  \/ \E i \in DOMAIN calls : WorkerInvoke(i) /\ UNCHANGED <<vvars, rvars, lvars, svars, cvars, avars>>
  \/ \E i \in DOMAIN calls : WorkerCount(i) /\ UNCHANGED <<vvars, rvars, lvars, svars, cvars, avars>>
  \/ ParallelReturn /\ UNCHANGED <<vvars, rvars, lvars, svars, cvars, avars>>
  \/ Tick /\ UNCHANGED <<vvars, rvars, lvars, svars, cvars, avars>>
SpecExec == InitExec /\ [][NextExec]_vars

\* An executor in parallel mode handed batches at one instant, with every
\* worker goroutine and the collector scheduled whenever they can take a step.
InitParallel == InitExec /\ te.parallel
ParallelBatchStep ==
  \/ \E i \in DOMAIN calls : WorkerStart(i) /\ UNCHANGED <<vvars, rvars, lvars, svars, cvars, avars>>
  \/ \E i \in DOMAIN calls : WorkerHit(i) /\ UNCHANGED <<vvars, rvars, lvars, svars, cvars, avars>>
  \/ \E i \in DOMAIN calls : WorkerInvoke(i) /\ UNCHANGED <<vvars, rvars, lvars, svars, cvars, avars>>
  \/ \E i \in DOMAIN calls : WorkerCount(i) /\ UNCHANGED <<vvars, rvars, lvars, svars, cvars, avars>>
  \/ ParallelReturn /\ UNCHANGED <<vvars, rvars, lvars, svars, cvars, avars>>
NextParallel ==
  \/ StartBatch /\ UNCHANGED <<vvars, rvars, lvars, svars, cvars, avars>>
  \/ ParallelBatchStep
SpecParallel == InitParallel /\ [][NextParallel]_vars /\ WF_vars(ParallelBatchStep)

\* One executeToolLoop call with the executor it builds.
InitLoop ==
  /\ ValidatorIdle /\ RetryIdle /\ StreamIdle /\ CacheIdle /\ AccumIdle
  /\ LoopInit
  /\ te = LoopExecutor(provider, plan)
  /\ tc = IF te.cache THEN EmptyCache(CacheTTL, MaxCacheSize) ELSE EmptyCache(0, 0)
  /\ ExecIdleBatch
NextLoop ==
  \/ LoopRound /\ UNCHANGED <<vvars, rvars, svars, cvars, avars>>
  \/ LoopGenerate /\ UNCHANGED <<vvars, rvars, svars, cvars, avars>>
  \/ LoopAfterBatch /\ UNCHANGED <<vvars, rvars, svars, cvars, avars>>
  \/ SerialStep /\ UNCHANGED <<vvars, rvars, lvars, svars, cvars, avars>>
  \/ SerialReturn /\ UNCHANGED <<vvars, rvars, lvars, svars, cvars, avars>>
  \/ \E i \in DOMAIN calls : WorkerStart(i) /\ UNCHANGED <<vvars, rvars, lvars, svars, cvars, avars>>
  \/ \E i \in DOMAIN calls : WorkerHit(i) /\ UNCHANGED <<vvars, rvars, lvars, svars, cvars, avars>>
  \/ \E i \in DOMAIN calls : WorkerInvoke(i) /\ UNCHANGED <<vvars, rvars, lvars, svars, cvars, avars>>
  \/ \E i \in DOMAIN calls : WorkerCount(i) /\ UNCHANGED <<vvars, rvars, lvars, svars, cvars, avars>>
  \/ ParallelReturn /\ UNCHANGED <<vvars, rvars, lvars, svars, cvars, avars>>
SpecLoop == InitLoop /\ [][NextLoop]_vars

\* One streaming session with its consumer.
InitStream == ValidatorIdle /\ RetryIdle /\ ExecIdle /\ LoopIdle /\ StreamInit /\ CacheIdle /\ AccumIdle
NextStream ==
  \/ StreamSetup /\ UNCHANGED <<vvars, rvars, evars, lvars, cvars, avars>>
  \/ StreamRecv /\ UNCHANGED <<vvars, rvars, evars, lvars, cvars, avars>>
  \/ sendChunk /\ UNCHANGED <<vvars, rvars, evars, lvars, cvars, avars>>
  \/ sendUsage /\ UNCHANGED <<vvars, rvars, evars, lvars, cvars, avars>>
  \/ sendToolCallRequest /\ UNCHANGED <<vvars, rvars, evars, lvars, cvars, avars>>
  \/ StreamToolExec /\ UNCHANGED <<vvars, rvars, evars, lvars, cvars, avars>>
  \/ WaitRegister /\ UNCHANGED <<vvars, rvars, evars, lvars, cvars, avars>>
  \/ WaitReturn /\ UNCHANGED <<vvars, rvars, evars, lvars, cvars, avars>>
  \/ sendToolCallResult /\ UNCHANGED <<vvars, rvars, evars, lvars, cvars, avars>>
  \/ sendError /\ UNCHANGED <<vvars, rvars, evars, lvars, cvars, avars>>
  \/ SendDone /\ UNCHANGED <<vvars, rvars, evars, lvars, cvars, avars>>
  \/ CloseEvents /\ UNCHANGED <<vvars, rvars, evars, lvars, cvars, avars>>
  \/ Receive /\ UNCHANGED <<vvars, rvars, evars, lvars, cvars, avars>>
  \/ Cancel /\ UNCHANGED <<vvars, rvars, evars, lvars, cvars, avars>>
  \/ \E j \in 1 .. MaxSubmits : SubmitLookup(j) /\ UNCHANGED <<vvars, rvars, evars, lvars, cvars, avars>>
  \/ \E j \in 1 .. MaxSubmits : SubmitSelect(j) /\ UNCHANGED <<vvars, rvars, evars, lvars, cvars, avars>>
SpecStream == InitStream /\ [][NextStream]_vars

\* The same session, with the session goroutine scheduled whenever it can
\* take a step: a send or select with a ready case returns. Nothing obliges
\* the consumer to receive, to submit or to cancel.
StreamSessionStep ==
  \/ StreamSetup /\ UNCHANGED <<vvars, rvars, evars, lvars, cvars, avars>>
  \/ StreamRecv /\ UNCHANGED <<vvars, rvars, evars, lvars, cvars, avars>>
  \/ sendChunk /\ UNCHANGED <<vvars, rvars, evars, lvars, cvars, avars>>
  \/ sendUsage /\ UNCHANGED <<vvars, rvars, evars, lvars, cvars, avars>>
  \/ sendToolCallRequest /\ UNCHANGED <<vvars, rvars, evars, lvars, cvars, avars>>
  \/ StreamToolExec /\ UNCHANGED <<vvars, rvars, evars, lvars, cvars, avars>>
  \/ WaitRegister /\ UNCHANGED <<vvars, rvars, evars, lvars, cvars, avars>>
  \/ WaitReturn /\ UNCHANGED <<vvars, rvars, evars, lvars, cvars, avars>>
  \/ sendToolCallResult /\ UNCHANGED <<vvars, rvars, evars, lvars, cvars, avars>>
  \/ sendError /\ UNCHANGED <<vvars, rvars, evars, lvars, cvars, avars>>
  \/ SendDone /\ UNCHANGED <<vvars, rvars, evars, lvars, cvars, avars>>
  \/ CloseEvents /\ UNCHANGED <<vvars, rvars, evars, lvars, cvars, avars>>
SpecStreamFair == InitStream /\ [][NextStream]_vars /\ WF_vars(StreamSessionStep)

\* One ToolCache called by concurrent goroutines.
InitCache ==
  ValidatorIdle /\ RetryIdle /\ ExecIdle /\ LoopIdle /\ StreamIdle /\ CacheInit /\ AccumIdle
NextCache ==
  \/ \E p \in DOMAIN c_procs : CacheCall(p) /\ UNCHANGED <<vvars, rvars, evars, lvars, svars, avars>>
  \/ \E p \in DOMAIN c_procs : GetLookup(p) /\ UNCHANGED <<vvars, rvars, evars, lvars, svars, avars>>
  \/ \E p \in DOMAIN c_procs : GetCount(p) /\ UNCHANGED <<vvars, rvars, evars, lvars, svars, avars>>
  \/ \E p \in DOMAIN c_procs : SetStore(p) /\ UNCHANGED <<vvars, rvars, evars, lvars, svars, avars>>
  \/ CacheTick /\ UNCHANGED <<vvars, rvars, evars, lvars, svars, avars>>
SpecCache == InitCache /\ [][NextCache]_vars

\* One round of tool-call fragments of an OpenAI stream.
InitAccum ==
  ValidatorIdle /\ RetryIdle /\ ExecIdle /\ LoopIdle /\ StreamIdle /\ CacheIdle /\ AccumInit
NextAccum ==
  \/ AccumDelta /\ UNCHANGED <<vvars, rvars, evars, lvars, svars, cvars>>
  \/ AccumFinish /\ UNCHANGED <<vvars, rvars, evars, lvars, svars, cvars>>
SpecAccum == InitAccum /\ [][NextAccum]_vars

----------------------------------------------------------------------------
(* C1 *)

\* The round count the call plan configures: its override when supplied,
\* otherwise the default.
ConfiguredMaxRounds ==
  IF plan.MaxToolRounds.set THEN plan.MaxToolRounds.val ELSE DefaultMaxRounds

\* C1 as stated, for a configured maximum of at least one round: in every
\* run of executeToolLoop, for either provider, neither the number of provider
\* generate calls nor the number of executed tool batches exceeds the
\* configured maximum round count.
C1_AsStated ==
  (loop_pc # "idle" /\ ConfiguredMaxRounds >= 1) =>
    genCalls <= ConfiguredMaxRounds /\ b_count <= ConfiguredMaxRounds

----------------------------------------------------------------------------
(* C2 *)

\* Every provider call so far requested tool calls with valid arguments and
\* every batch so far returned without error.
ToolsEveryRound ==
  /\ genTools = genCalls
  /\ response.kind \in {"tools", "none"}
  /\ b_err = Nil

\* C2: with maxRounds the limit the loop's executor holds, a loop in which
\* every round requested tools and every batch succeeded ends, on entering
\* round maxRounds+1, with ToolRoundLimitExceeded after exactly maxRounds
\* provider calls and maxRounds batches; no provider call or batch is ever
\* made in a round beyond maxRounds.
C2_RoundLimit ==
  /\ loop_pc \in {"generate", "batch"} => roundCount <= te.maxRounds
  /\ loop_pc # "idle" => genCalls <= te.maxRounds /\ b_count <= te.maxRounds
  /\ (loop_pc = "done" /\ ToolsEveryRound) =>
       /\ loop_ret.err = ErrRoundLimit(te.maxRounds)
       /\ roundCount = te.maxRounds + 1
       /\ genCalls = te.maxRounds
       /\ b_count = te.maxRounds

\* A Google loop with a round override of two ended with the round-limit
\* error after two provider calls and two batches.
C2_Witness ==
  /\ loop_pc = "done" /\ ToolsEveryRound
  /\ provider = "google" /\ plan.MaxToolRounds.set /\ te.maxRounds = 2
  /\ loop_ret.err = ErrRoundLimit(2)
  /\ genCalls = 2 /\ b_count = 2

----------------------------------------------------------------------------
(* C3 *)

\* The keys handlers were invoked for.
InvokedKeys == { handlerLog[a].key : a \in DOMAIN handlerLog }

\* C3 as stated, for an executor with a cache that never had to evict (no
\* more distinct keys than the cache holds): a handler is not invoked twice
\* for the same (tool name, arguments) within the TTL, and of two calls with
\* the same key in a returned batch that both reached the cache, the later
\* one is marked cached and carries the value of the earlier one.
C3_AsStated ==
  (te.cache /\ Cardinality(InvokedKeys) <= tc.maxSize) =>
    /\ \A a, b \in DOMAIN handlerLog :
         (a < b /\ handlerLog[a].key = handlerLog[b].key) =>
           handlerLog[b].at - handlerLog[a].at > tc.ttl
    /\ b_pc = "returned" /\ b_err = Nil =>
         \A i, j \in DOMAIN calls :
           (i < j /\ calls[i] = calls[j] /\ calls[i].name \in HandlerNames
              /\ (results[i].err = Nil \/ results[i].err.kind = "tool failed")) =>
             /\ results[i].cached \/ results[j].cached
             /\ results[j].result = results[i].result

----------------------------------------------------------------------------
(* C4 *)

\* The error of the i-th invocation of the inner handler was retryable.
FailedRetryable(i) ==
  /\ r_outcomes[i].err # Nil
  /\ isRetryable(r_outcomes[i].err, config.RetryableErrors)

\* C4, for a wrapped handler with MaxAttempts = N >= 0 whose calling context
\* is not cancelled: when every invocation failed with a retryable error the
\* inner handler was invoked exactly N times and the wrapper failed with
\* RetriesExhausted wrapping the last error; an invocation failing with a
\* non-retryable error is the last one (the only one when it is the first)
\* and the wrapper fails with NonRetryable wrapping it; a success at
\* invocation k is the last invocation, k <= N, and the wrapper returns it.
C4_RetryBound ==
  (r_pc = "done" /\ ~r_ctxDone /\ config.MaxAttempts >= 0) =>
    LET n == Len(r_outcomes)
        N == config.MaxAttempts
    IN /\ n <= N
       /\ (\A i \in 1 .. n : FailedRetryable(i)) =>
            /\ n = N
            /\ r_ret.result = Nil
            /\ r_ret.err = ErrRetriesExhausted(IF N = 0 THEN Nil ELSE r_outcomes[N].err)
       /\ \A i \in 1 .. n :
            (r_outcomes[i].err # Nil /\ ~FailedRetryable(i)) =>
              /\ i = n
              /\ r_ret.result = Nil
              /\ r_ret.err = ErrNonRetryable(r_outcomes[i].err)
       /\ \A k \in 1 .. n :
            r_outcomes[k].err = Nil =>
              /\ k = n
              /\ r_ret = [result |-> r_outcomes[k].result, err |-> Nil]
              /\ \A i \in 1 .. k - 1 : FailedRetryable(i)

\* A wrapper with MaxAttempts = 3 whose inner handler failed three times
\* with a retryable error returned RetriesExhausted.
C4_Witness ==
  /\ r_pc = "done" /\ ~r_ctxDone
  /\ config.MaxAttempts = 3
  /\ Len(r_outcomes) = 3
  /\ \A i \in 1 .. 3 : FailedRetryable(i)
  /\ r_ret.err = ErrRetriesExhausted(r_outcomes[3].err)

----------------------------------------------------------------------------
(* C5 *)

\* The batch [ok, fail, ok].
OkFailOk ==
  << toolCallRequest("tool1", ArgsX), toolCallRequest("tool2", ArgsX),
     toolCallRequest("tool1", ArgsX) >>

\* Indexes of the running batch whose result holds an error.
FailedIndexes == { i \in DOMAIN results : results[i].err # Nil }

\* Indexes of the running batch a handler was invoked for.
InvokedIndexes ==
  { handlerLog[a].index : a \in { b \in DOMAIN handlerLog :
                                    handlerLog[b].batch = b_count } }

\* C5: serial executeBatch invokes handlers in request order. With
\* stop-on-error it returns an error right after the first failing call: no
\* later call is executed or has a handler invoked, so the third handler of
\* [ok, fail, ok] is never invoked. Without stop-on-error every call is
\* executed and no error returned; [ok, fail, ok] gives success, error,
\* success at indexes 0, 1, 2.
C5_SerialStopOnError ==
  ~te.parallel =>
    /\ \A a, b \in DOMAIN handlerLog :
         (a < b /\ handlerLog[a].batch = handlerLog[b].batch) =>
           handlerLog[a].index < handlerLog[b].index
    /\ (b_pc = "returned" /\ te.stopOnError) =>
         /\ b_err # Nil <=> FailedIndexes # {}
         /\ \A k \in FailedIndexes :
              /\ b_err = ErrToolFailed(calls[k].name, results[k].err)
              /\ \A i \in DOMAIN calls :
                   i > k => results[i] = ZeroResult /\ i \notin InvokedIndexes
         /\ calls = OkFailOk =>
              /\ results[1].err = Nil /\ results[2].err # Nil
              /\ 3 \notin InvokedIndexes
    /\ (b_pc = "returned" /\ ~te.stopOnError) =>
         /\ b_err = Nil
         /\ \A i \in DOMAIN calls : results[i].name = calls[i].name
         /\ calls = OkFailOk =>
              results[1].err = Nil /\ results[2].err # Nil /\ results[3].err = Nil

\* Serial [ok, fail, ok] under stop-on-error returned an error with the first
\* handler invoked and the third call not executed.
C5_Witness ==
  /\ ~te.parallel /\ te.stopOnError /\ b_pc = "returned"
  /\ calls = OkFailOk
  /\ b_err = ErrToolFailed("tool2", [kind |-> "tool failed"])
  /\ 1 \in InvokedIndexes
  /\ results[3] = ZeroResult

----------------------------------------------------------------------------
(* C6 *)

\* C6: a parallel executeBatch returns, whatever the interleaving of its
\* workers, as many results as calls, and the result at index i carries the
\* name of call i and, when it holds no error, the value the handler of call
\* i returns for its arguments; a call whose handler is missing or fails has
\* an error at its index.
C6_ParallelIndexes ==
  (te.parallel /\ b_pc = "returned") =>
    /\ Len(results) = Len(calls)
    /\ \A i \in DOMAIN calls :
         LET out == HandlerOutcome(calls[i].name, calls[i].args) IN
         /\ results[i].name = calls[i].name
         /\ results[i].err = Nil => results[i].result = out.result
         /\ (calls[i].name \notin HandlerNames \/ out.err # Nil) =>
              results[i].err # Nil

\* A parallel batch of three calls returned after the handler of the third
\* call was invoked before the handler of the first.
C6_Witness ==
  /\ te.parallel /\ b_pc = "returned"
  /\ Len(calls) = 3
  /\ calls[1] # calls[3]
  /\ results[1].err = Nil
  /\ \E a, b \in DOMAIN handlerLog :
       a < b /\ handlerLog[a].index = 3 /\ handlerLog[b].index = 1

----------------------------------------------------------------------------
(* C7 *)

\* C7: the event channel is never closed twice, it has been closed exactly
\* once when run has returned (after the completion event, after an error, or
\* after cancellation), and no event is placed on it once it is closed.
C7_ClosedOnce ==
  [][ /\ closeCount' <= 1
      /\ s_pc' = "closed" <=> closeCount' = 1
      /\ closeCount >= 1 => sent' = sent ]_vars

\* A cancelled session has returned with its channel closed once.
C7_Witness ==
  /\ s_pc = "closed" /\ s_ctxDone
  /\ closeCount = 1
  /\ sent # <<>>

----------------------------------------------------------------------------
(* C8 *)

\* C8 as stated, its second half: no text-chunk event is placed on the event
\* channel once the session context is cancelled.
C8_AsStated ==
  [][ s_ctxDone =>
        ~(Len(sent') > Len(sent) /\ sent'[Len(sent')].type = "chunk") ]_vars

----------------------------------------------------------------------------
(* C9 *)

\* A waitForToolResult call on channel ch is still pending.
WaitPending(ch) == \E id \in DOMAIN toolWait : toolWait[id] = ch

\* C9 as stated, in a session whose context is not cancelled: a returned
\* submitToolResult call either failed with NoPendingCall or reported its
\* value delivered, and a value reported delivered was returned by the wait
\* on its channel (or that wait is still pending).
C9_AsStated ==
  ~s_ctxDone =>
    \A j \in DOMAIN subs :
      subs[j].pc = "returned" =>
        \/ subs[j].ret.kind = "NoPendingCall"
        \/ /\ subs[j].ret.kind = "delivered"
           /\ \/ WaitPending(subs[j].ch)
              \/ \E w \in DOMAIN waitLog :
                   /\ waitLog[w].ch = subs[j].ch
                   /\ waitLog[w].result = SubmitValue(j)

----------------------------------------------------------------------------
(* C10 *)

\* The schema of the validated tool, and what the claim's words mean on it.
v_schema == tv_tools[RegisteredTool]
v_hasSchema == v_name = RegisteredTool /\ ~v_schema.empty
v_missing == { f \in Fields : \E i \in DOMAIN v_schema.required :
                 v_schema.required[i] = f /\ f \notin DOMAIN v_args }
v_described ==
  IF ~v_schema.hasProperties THEN {}
  ELSE { a \in DOMAIN v_args : a \in DOMAIN v_schema.properties
                                /\ v_schema.properties[a] \in DeclaredTypes }

\* JSON type of a value against a declared JSON type (spec 4.1): null is none
\* of the six types, an integer is a number without fractional part.
JSONTypeMatches(declared, value) ==
  CASE declared = "string" -> value.kind = "string"
    [] declared = "number" -> value.kind = "float64"
    [] declared = "integer" -> value.kind = "float64" /\ value.twice % 2 = 0
    [] declared = "boolean" -> value.kind = "bool"
    [] declared = "array" -> value.kind = "slice"
    [] declared = "object" -> value.kind = "map"
    [] OTHER -> TRUE

v_mismatched ==
  { a \in v_described : ~JSONTypeMatches(v_schema.properties[a], v_args[a]) }
\* A whole float64 declared integer whose value lies beyond the int range:
\* f != float64(int(f)) holds for it, so the code rejects it (see C34).
v_beyondInt ==
  { a \in v_described :
      /\ v_schema.properties[a] = "integer" /\ v_args[a].kind = "float64"
      /\ v_args[a].twice % 2 = 0
      /\ (v_args[a].twice < 2 * IntMin \/ v_args[a].twice > 2 * IntMax) }
v_mismatchedNonNull ==
  { a \in v_mismatched : v_args[a].kind # "nil" } \cup v_beyondInt

----------------------------------------------------------------------------
(* C11 *)

\* The entry stored under the key of call is older than the TTL at instant t.
Expired(cache, call, t) ==
  /\ cacheKey(call.name, call.args) \in DOMAIN cache.cache
  /\ t - cache.cache[cacheKey(call.name, call.args)].timestamp > cache.ttl

\* The entry stored under the key of call was written at instant t.
FreshAt(cache, call, t) ==
  /\ cacheKey(call.name, call.args) \in DOMAIN cache.cache
  /\ cache.cache[cacheKey(call.name, call.args)].timestamp = t

\* C11: a call whose cache entry is older than the TTL is a miss. In serial
\* mode the step that executes it counts one miss, invokes the handler again,
\* returns a result not marked cached and leaves an entry for the key stamped
\* with the current instant. In parallel mode the worker's Get leaves the
\* stored entries as they are (the expired entry stays) and goes on to the
\* handler, and the handler step stores the entry stamped with the current
\* instant.
C11_Expiry ==
  [][ /\ (b_pc = "serial" /\ b_i <= Len(calls) /\ now' = now
            /\ Expired(tc, calls[b_i], now)) =>
           /\ tc'.misses = tc.misses + 1 /\ tc'.hits = tc.hits
           /\ handlerLog' = Append(handlerLog, LogEntry(b_i, calls[b_i]))
           /\ ~results'[b_i].cached
           /\ FreshAt(tc', calls[b_i], now)
      /\ \A i \in DOMAIN calls :
           /\ (b_pc = "parallel" /\ w_pc[i] = "start" /\ w_pc'[i] # "start"
                 /\ Expired(tc, calls[i], now)) =>
                /\ w_pc'[i] = "invoke"
                /\ tc'.cache = tc.cache
           /\ (b_pc = "parallel" /\ w_pc[i] = "invoke" /\ w_pc'[i] # "invoke"
                 /\ te.cache) =>
                /\ FreshAt(tc', calls[i], now)
                /\ Len(handlerLog') = Len(handlerLog) + 1 ]_vars

\* The handler of one key was invoked twice, more than the TTL apart, and
\* the stored entry carries the instant of the second invocation.
C11_Witness ==
  /\ te.cache
  /\ \E a, b \in DOMAIN handlerLog :
       /\ a < b
       /\ handlerLog[a].key = handlerLog[b].key
       /\ handlerLog[b].at - handlerLog[a].at > tc.ttl
       /\ handlerLog[b].key \in DOMAIN tc.cache
       /\ tc.cache[handlerLog[b].key].timestamp = handlerLog[b].at

----------------------------------------------------------------------------
(* C16 *)

\* Indexes of the running batch whose result carries an error.
FailedCalls == { i \in DOMAIN results : results[i].err # Nil }

\* C16: when a parallel batch under stop-on-error has returned, every worker
\* has finished, every call has its result in the slot of its index, and the
\* error returned is nil when no call failed and otherwise the first error
\* sent on the error channel, which is the wrapped error of one of the failed
\* calls.
C16_ParallelStopOnError ==
  (te.parallel /\ te.stopOnError /\ b_pc = "returned") =>
    /\ \A i \in DOMAIN calls : w_pc[i] = "done"
    /\ Len(results) = Len(calls)
    /\ \A i \in DOMAIN calls : results[i].name = calls[i].name
    /\ Len(errChan) = Cardinality(FailedCalls)
    /\ IF FailedCalls = {}
       THEN b_err = Nil
       ELSE /\ b_err = Head(errChan)
            /\ \E k \in FailedCalls :
                 b_err = ErrToolFailed(calls[k].name, results[k].err)

\* A parallel stop-on-error batch has returned an error although the handler
\* of a later call ran after the handler of the failed first call.
C16_Witness ==
  /\ te.parallel /\ te.stopOnError /\ b_pc = "returned"
  /\ Len(calls) >= 2
  /\ results[1].err # Nil /\ results[2].err = Nil /\ ~results[2].cached
  /\ b_err = ErrToolFailed(calls[1].name, results[1].err)
  /\ \E a, b \in DOMAIN handlerLog :
       /\ a < b
       /\ handlerLog[a].batch = b_count /\ handlerLog[a].index = 1
       /\ handlerLog[b].batch = b_count /\ handlerLog[b].index = 2

----------------------------------------------------------------------------
(* C19 *)

\* C19 (as stated): when the first parallel batch has returned, the
\* successful and failed counters add up to the number of its calls and
\* cachedCalls equals the number of results marked cached.
C19_AsStated ==
  (te.parallel /\ b_pc = "returned" /\ b_count = 1) =>
    /\ metrics.successfulCalls + metrics.failedCalls = Len(calls)
    /\ metrics.cachedCalls = Cardinality({ i \in DOMAIN results : results[i].cached })

----------------------------------------------------------------------------
(* C15 *)

\* The wrapper waits in the backoff select for a timer of positive length
\* and the calling context is cancelled.
CancelledInBackoff ==
  r_pc = "wait" /\ r_ctxDone /\ calculateBackoff(attempt, config) > 0

\* C15: when the calling context is cancelled while the wrapper waits in a
\* backoff of positive length, the only step the wrapper takes from there is
\* to return the context's cancellation error without another invocation of
\* the inner handler, and it does take that step; once it has returned, the
\* inner handler is not invoked any more.
C15_CancelInBackoff ==
  /\ [][ /\ CancelledInBackoff =>
              /\ r_pc' = "done"
              /\ r_ret' = [result |-> Nil, err |-> ErrContext]
              /\ r_outcomes' = r_outcomes
         /\ r_pc = "done" => r_outcomes' = r_outcomes ]_vars
  /\ CancelledInBackoff ~> (r_pc = "done" /\ r_ret.err = ErrContext)

\* The wrapper returned the cancellation error out of a backoff of positive
\* length with attempts left.
C15_Witness ==
  /\ r_pc = "done" /\ r_ctxDone
  /\ r_ret = [result |-> Nil, err |-> ErrContext]
  /\ config.InitialBackoff > 0
  /\ Len(r_outcomes) >= 1 /\ Len(r_outcomes) < config.MaxAttempts

----------------------------------------------------------------------------
(* C18 *)

\* A result of the latest batch carries the retry wrapper's exhaustion error.
ExhaustedInBatch ==
  \E i \in DOMAIN results : results[i].err.kind = "RetriesExhausted"

\* C18 (as stated): a batch in which a wrapped handler returned
\* RetriesExhausted returns an error from executeBatch, and once the loop has
\* taken the batch's outcome it has failed with that error; and a loop whose
\* round count passed the executor's maximum has failed with the round-limit
\* error.
C18_AsStated ==
  /\ (loop_pc = "batch" /\ b_pc = "returned" /\ ExhaustedInBatch) => b_err # Nil
  /\ (loop_pc # "batch" /\ b_count > 0 /\ ExhaustedInBatch) =>
       (loop_pc = "done" /\ loop_ret.err = b_err /\ b_err # Nil)
  /\ (loop_pc # "round" /\ roundCount > te.maxRounds) =>
       (loop_pc = "done" /\ loop_ret.err = ErrRoundLimit(te.maxRounds))

----------------------------------------------------------------------------
(* C14 *)

\* Number of events of the given type placed on the channel.
CountSent(type) == Cardinality({ k \in DOMAIN sent : sent[k].type = type })

\* C14: when a session that was not cancelled has closed its channel, the
\* channel was closed once and either the session ended with an error, and
\* then exactly one error event was sent, it carries that error, it is the
\* last event and there is no done event, or it ended without error, and
\* then exactly one done event was sent, it is the last event and there is
\* no error event. A failed handler and a call without handler outside pause
\* mode end the session with that error.
C14_TerminalEvent ==
  (s_pc = "closed" /\ ~s_ctxDone) =>
    /\ closeCount = 1
    /\ sent # <<>>
    /\ IF s_err # Nil
       THEN /\ sent[Len(sent)] = Event("error", s_err)
            /\ CountSent("error") = 1
            /\ CountSent("done") = 0
       ELSE /\ sent[Len(sent)] = Event("done", 0)
            /\ CountSent("done") = 1
            /\ CountSent("error") = 0
    /\ s_cur.err # Nil => s_err = s_cur.err
    /\ (s_mode # "pause" /\ s_tools # <<>>
          /\ Head(s_tools).name \notin StreamHandlers) =>
         s_err = ErrNoHandler(Head(s_tools).name)

\* A session that was not cancelled closed after the handler of a tool call
\* failed: request, result and the error event were sent.
C14_Witness ==
  /\ s_pc = "closed" /\ ~s_ctxDone
  /\ s_err = ErrHandler
  /\ Len(sent) >= 3
  /\ sent[Len(sent)] = Event("error", ErrHandler)

----------------------------------------------------------------------------
(* C17 *)

\* C17: while the session context is not cancelled, the events the consumer
\* received followed by the events in the channel's buffer are exactly the
\* events the session produced, in the order it produced them, the buffer
\* never holds more than its capacity, and the session produces no event
\* while the buffer is full.
C17_OrderedDelivery ==
  /\ [](~s_ctxDone =>
          /\ received \o events = produced
          /\ Len(events) <= BufferSize)
  /\ [][(~s_ctxDone /\ Len(events) = BufferSize) => produced' = produced]_vars

\* The consumer has received an event, the buffer is full and the session
\* stands before its next send.
C17_Witness ==
  /\ ~s_ctxDone
  /\ Len(events) = BufferSize
  /\ received # <<>>
  /\ s_pc \in {"toolreq", "toolres", "done"}

----------------------------------------------------------------------------
(* C12 *)

\* Twice the number an int or float64 value stands for.
TwiceOf(v) == IF v.kind = "int" THEN 2 * v.n ELSE v.twice

\* Two argument values are the same value: equal, or numbers of the same
\* magnitude (the int 2 and the float64 2.0).
SameValue(u, v) ==
  \/ u = v
  \/ /\ u.kind \in {"int", "float64"} /\ v.kind \in {"int", "float64"}
     /\ TwiceOf(u) = TwiceOf(v)

\* Two argument maps have the same keys and the same value under each.
SameArguments(a, b) ==
  /\ DOMAIN a = DOMAIN b
  /\ \A f \in DOMAIN a : SameValue(a[f], b[f])

\* A stored entry that has not expired and was stored by a call of `name`
\* with the arguments of `q`.
StoredFor(name, q) ==
  \E k \in DOMAIN c_tc.cache :
    /\ c_now - c_tc.cache[k].timestamp <= c_tc.ttl
    /\ c_tc.cache[k].result.of = name
    /\ SameArguments(MapOf(c_tc.cache[k].result.built), MapOf(q))

\* C12: for calls whose arguments have a JSON encoding, two calls have the
\* same cache key exactly when they have the same tool name and argument
\* maps with the same keys and values, in whatever order the maps were built;
\* and a Get finds an entry exactly when an unexpired entry stored by a call
\* of the same name and arguments exists, and returns that call's result.
C12_KeyDeterministic ==
  /\ \A n1, n2 \in CacheNames, q1, q2 \in CacheInsertions :
       (Marshalable(MapOf(q1)) /\ Marshalable(MapOf(q2))) =>
         (cacheKey(n1, MapOf(q1)) = cacheKey(n2, MapOf(q2))
            <=> (n1 = n2 /\ SameArguments(MapOf(q1), MapOf(q2))))
  /\ [][ \A p \in DOMAIN c_procs :
           (c_procs[p].pc = "get" /\ c_procs'[p].pc = "count") =>
             /\ c_procs'[p].found <=> StoredFor(c_procs[p].name, c_procs[p].built)
             /\ c_procs'[p].found =>
                  /\ c_procs'[p].result.of = c_procs[p].name
                  /\ SameArguments(MapOf(c_procs'[p].result.built),
                                   MapOf(c_procs[p].built)) ]_vars

\* A Get found the entry a Set stored for the same two arguments assigned in
\* the other order.
C12_Witness ==
  \E p \in DOMAIN c_procs :
    /\ c_procs[p].pc = "count" /\ c_procs[p].found
    /\ Len(c_procs[p].built) = 2
    /\ c_procs[p].result.built # c_procs[p].built

----------------------------------------------------------------------------
(* C13 *)

\* Entry k of map m is one no entry of m is older than.
IsOldest(m, k) == \A j \in DOMAIN m : m[k].timestamp <= m[j].timestamp

\* Map new is map old with an entry stamped t stored under some key, after
\* the removal of the entries under the keys in gone.
StoredInto(old, new, gone, t) ==
  \E key \in DOMAIN new :
    /\ new[key].timestamp = t
    /\ DOMAIN new = ((DOMAIN old) \ gone) \cup {key}
    /\ \A j \in (DOMAIN new) \ {key} : new[j] = old[j]

\* C13: a cache of maximum size M >= 1 never holds more than M entries; a
\* step that changes the stored map is a Set that, finding M entries,
\* removes exactly one entry, one that no other entry is older than, and
\* then stores the new entry, and finding fewer removes none; a Get never
\* changes the stored map, so a hit leaves the entry's timestamp as it was.
C13_Eviction ==
  /\ [](Cardinality(DOMAIN c_tc.cache) <= c_tc.maxSize)
  /\ [][ /\ c_tc'.cache # c_tc.cache =>
              IF Cardinality(DOMAIN c_tc.cache) = c_tc.maxSize
              THEN \E k \in DOMAIN c_tc.cache :
                     /\ IsOldest(c_tc.cache, k)
                     /\ StoredInto(c_tc.cache, c_tc'.cache, {k}, c_now)
              ELSE StoredInto(c_tc.cache, c_tc'.cache, {}, c_now)
         /\ (c_tc'.hits # c_tc.hits \/ c_tc'.misses # c_tc.misses
               \/ \E p \in DOMAIN c_procs :
                    c_procs[p].pc = "get" /\ c_procs'[p].pc = "count") =>
              c_tc'.cache = c_tc.cache ]_vars

\* A cache of maximum size 2 is full with entries of different age, and a
\* key stored earlier is no longer in it.
C13_Witness ==
  /\ c_tc.maxSize = 2
  /\ Cardinality(DOMAIN c_tc.cache) = 2
  /\ \E k \in c_stored : k \notin DOMAIN c_tc.cache
  /\ \E a, b \in DOMAIN c_tc.cache :
       c_tc.cache[a].timestamp < c_tc.cache[b].timestamp

----------------------------------------------------------------------------
(* C20 *)

\* C20 (as stated): whenever no call is in progress, hits + misses equals the
\* number of Get calls that computed a key.
C20_AsStated ==
  (\A p \in DOMAIN c_procs : c_procs[p].pc = "idle") =>
    c_tc.hits + c_tc.misses = c_gets

----------------------------------------------------------------------------
(* C21 *)

\* The arguments of the call that the properties of the tool's schema do not
\* describe.
v_undescribed ==
  IF v_name \in DOMAIN tv_tools /\ tv_tools[v_name].hasProperties
  THEN (DOMAIN v_args) \ DOMAIN tv_tools[v_name].properties
  ELSE DOMAIN v_args

\* C21: a call of a name without registered schema fails with UnknownTool
\* and a call of a registered name never does; an error that names an
\* argument is a MissingParameter for a required field the call omits or a
\* TypeMismatch for an argument the schema's properties describe, never one
\* for an undescribed argument; validation changes neither the tool table
\* nor the arguments, and a second validation of the same call passes or
\* fails as the first did, with an error of the same kind (the same error
\* when it is UnknownTool or MissingParameter).
C21_OpenWorld ==
  /\ [](v_pc \in {"done", "twice"} =>
          /\ v_name \notin DOMAIN tv_tools <=> v_err = ErrUnknownTool(v_name)
          /\ v_err.kind \in {"nil", "UnknownTool", "MissingParameter", "TypeMismatch"}
          /\ v_err.kind = "MissingParameter" => v_err.field \notin DOMAIN v_args
          /\ v_err.kind = "TypeMismatch" =>
               /\ v_err.field \in DOMAIN v_args
               /\ v_err.field \notin v_undescribed)
  /\ [](v_pc = "twice" =>
          /\ v_again.kind = v_err.kind
          /\ v_err.kind # "TypeMismatch" => v_again = v_err)
  /\ [][tv_tools' = tv_tools /\ v_args' = v_args /\ v_name' = v_name]_vars

\* A call that carries an argument the properties do not describe, next to
\* a described one, was validated twice and passed.
C21_Witness ==
  /\ v_pc = "twice"
  /\ v_err = Nil /\ v_again = Nil
  /\ v_name \in DOMAIN tv_tools
  /\ tv_tools[v_name].hasProperties
  /\ DOMAIN tv_tools[v_name].properties # {}
  /\ v_undescribed # {}
  /\ \E f \in v_undescribed : v_args[f].kind # "nil"

----------------------------------------------------------------------------
(* C22 *)

\* C22: the tool loop ends in the first round, within the limit, whose
\* provider response requests no tool call: the provider call that brings
\* such a response returns it as the final answer of that round, with no
\* error, without starting a batch, invoking a handler or touching the
\* conversation; every earlier round requested tool calls and ran one batch;
\* and once the loop has returned there is no further provider call and no
\* further handler invocation.
C22_FinalAnswer ==
  /\ [][(loop_pc = "generate" /\ response'.kind = "final") =>
          /\ loop_pc' = "done"
          /\ loop_ret' = [result |-> [kind |-> "answer", round |-> roundCount],
                          err |-> Nil]
          /\ UNCHANGED <<handlerLog, b_count, b_pc, metrics, contents>>]_vars
  /\ [](loop_pc = "done" /\ response.kind = "final" =>
          /\ loop_ret.err = Nil
          /\ loop_ret.result.round = roundCount
          /\ roundCount <= te.maxRounds
          /\ genCalls = roundCount
          /\ genTools = roundCount - 1
          /\ b_count = roundCount - 1)
  /\ [][loop_pc = "done" => UNCHANGED <<genCalls, handlerLog, loop_ret, loop_pc>>]_vars

C22_Witness ==
  /\ loop_pc = "done" /\ response.kind = "final"
  /\ roundCount = 2 /\ Len(handlerLog) > 0
  /\ loop_ret.result = [kind |-> "answer", round |-> 2]

----------------------------------------------------------------------------
(* C23 *)

IsToolEvent(e) == e.type \in {"toolreq", "toolres"}

\* The request and result events of a sequence of events, in order.
ToolEventsOf(seq) == SelectSeq(seq, IsToolEvent)

\* Positions of the session goroutine inside the handling of a batch.
ToolPcs == {"toolreq", "toolexec", "register", "waiting", "toolres"}

SameEvent(e, f) == e.type = f.type /\ e.detail = f.detail

\* a is b with some events left out.
RECURSIVE IsSubSeq(_, _)
IsSubSeq(a, b) ==
  IF a = <<>> THEN TRUE
  ELSE IF b = <<>> THEN FALSE
  ELSE IF SameEvent(Head(a), Head(b)) THEN IsSubSeq(Tail(a), Tail(b))
  ELSE IsSubSeq(a, Tail(b))

\* C23: in every mode the session emits the events of a batch of tool calls
\* pairwise and in call order: a result event directly follows the request
\* event of the same call, a request event follows the result of the call
\* before it, the request of call i > 1 of a batch follows the pair of call
\* i - 1, and no chunk, usage or done event follows a request that has no
\* result yet; the session leaves the batch for the delta stream only after
\* the result of the last call (or for an error); the events on the channel
\* are the emitted ones in the same order, all of them while the session
\* context is not cancelled.
C23_CallOrder ==
  /\ [](LET T == ToolEventsOf(produced)
        IN /\ \A k \in DOMAIN T :
                /\ T[k].type = "toolres" =>
                     /\ k > 1
                     /\ T[k - 1].type = "toolreq"
                     /\ T[k - 1].detail = T[k].detail
                /\ (T[k].type = "toolreq" /\ k > 1) => T[k - 1].type = "toolres"
                /\ (T[k].type = "toolreq" /\ T[k].detail.index > 1) =>
                     /\ k > 2
                     /\ T[k - 2].type = "toolreq"
                     /\ T[k - 2].detail.index = T[k].detail.index - 1
           /\ \A k \in DOMAIN produced :
                (k > 1 /\ produced[k].type \in {"chunk", "usage", "done"}) =>
                  produced[k - 1].type # "toolreq")
  /\ [](IsSubSeq(sent, produced) /\ (~s_ctxDone => sent = produced))
  /\ [][(s_pc \in ToolPcs /\ s_pc' \notin ToolPcs) =>
          \/ s_pc' = "error"
          \/ s_pc = "toolres" /\ s_pc' = "recv" /\ s_tools' = <<>>]_vars

\* A parallel-mode session placed the two request/result pairs of a batch
\* and then a later chunk on the channel.
C23_Witness ==
  /\ s_mode = "parallel"
  /\ Len(sent) = 5
  /\ sent[1].type = "toolreq" /\ sent[1].detail.index = 1
  /\ sent[2].type = "toolres" /\ sent[2].detail.index = 1
  /\ sent[3].type = "toolreq" /\ sent[3].detail.index = 2
  /\ sent[4].type = "toolres" /\ sent[4].detail.index = 2
  /\ sent[5].type = "chunk"

----------------------------------------------------------------------------
(* C24 *)

\* The consumer has received the request event of the call the session is
\* handling in pause mode, and that call is not resolved yet.
RequestReceivedFor(id) ==
  /\ s_mode = "pause"
  /\ s_pc \in {"register", "waiting"}
  /\ Head(s_tools).id = id
  /\ \E k \in DOMAIN received :
       received[k].type = "toolreq" /\ received[k].detail = Head(s_tools)

\* C24 as stated: in a pause-mode session a submitToolResult(id, value)
\* issued after the consumer received the request event of the call id, and
\* before that call is resolved or the session ends, does not fail with
\* NoPendingCall.
C24_AsStated ==
  [][\A j \in DOMAIN subs :
       (subs[j].pc = "idle" /\ subs'[j].pc # "idle"
          /\ RequestReceivedFor(subs'[j].id)) =>
         subs'[j].ret.kind # "NoPendingCall"]_vars

----------------------------------------------------------------------------
(* C25 *)

\* C25 as stated, in a session whose context is not cancelled: of the
\* submitToolResult calls made for one pending tool call (one rendezvous
\* channel) at most one returns success.
C25_AsStated ==
  ~s_ctxDone =>
    \A j, k \in DOMAIN subs :
      (j # k /\ subs[j].pc = "returned" /\ subs[k].pc = "returned"
         /\ subs[j].ret.kind = "delivered" /\ subs[k].ret.kind = "delivered") =>
        subs[j].ch # subs[k].ch

----------------------------------------------------------------------------
(* C26 *)

\* The executor's validator rejects the call.
FailsValidation(call) ==
  /\ te.validator
  /\ \A order \in Permutations_(DOMAIN call.args) :
       ValidateCall(ExecTools, call.name, call.args, order) # Nil

\* The cache holds an entry for the call that has not expired.
FreshEntry(call) ==
  /\ te.cache
  /\ cacheKey(call.name, call.args) \in DOMAIN tc.cache
  /\ now - tc.cache[cacheKey(call.name, call.args)].timestamp <= tc.ttl

\* A step of executeSerial that runs executeSingleCall for calls[b_i].
SingleCallStep ==
  /\ b_pc = "serial" /\ b_i <= Len(calls)
  /\ b_i' = b_i + 1 \/ b_pc' = "returned"

\* C26: executeSingleCall validates, then looks the cache up, then looks the
\* handler up, then calls it and stores the outcome. A call that fails
\* validation returns the validator's error and leaves the whole cache, its
\* hit and miss counters included, and the handlers alone; a cache hit
\* returns the stored outcome marked cached, calls no handler and leaves the
\* entries alone; a call without handler returns NoHandler, calls nothing
\* and leaves the entries alone; any other call invokes its handler once and,
\* with a cache, stores the outcome under the call's key. In every mode a
\* handler is only ever invoked, and an entry only ever stored, for a call
\* that passes validation and has a handler.
C26_SingleCallOrder ==
  /\ [][SingleCallStep =>
          LET call == calls[b_i]
              res == results'[b_i]
              key == cacheKey(call.name, call.args)
          IN IF FailsValidation(call)
             THEN /\ res.err.kind \in {"UnknownTool", "MissingParameter", "TypeMismatch"}
                  /\ ~res.cached
                  /\ tc' = tc
                  /\ handlerLog' = handlerLog
             ELSE IF FreshEntry(call)
             THEN /\ res = toolCallResult(call.name, tc.cache[key].result,
                                          tc.cache[key].err, TRUE)
                  /\ tc'.cache = tc.cache
                  /\ tc'.hits = tc.hits + 1
                  /\ handlerLog' = handlerLog
             ELSE IF call.name \notin HandlerNames
             THEN /\ res = toolCallResult(call.name, Nil, ErrNoHandler(call.name), FALSE)
                  /\ tc'.cache = tc.cache
                  /\ handlerLog' = handlerLog
             ELSE /\ Len(handlerLog') = Len(handlerLog) + 1
                  /\ ~res.cached
                  /\ te.cache =>
                       /\ key \in DOMAIN tc'.cache
                       /\ tc'.cache[key].result = res.result
                       /\ tc'.cache[key].err = res.err
                       /\ tc'.cache[key].timestamp = now]_vars
  /\ [](LET served == { cacheKey(c.name, c.args) :
                          c \in { d \in ExecCalls : /\ ~FailsValidation(d)
                                                    /\ d.name \in HandlerNames } }
        IN /\ \A a \in DOMAIN handlerLog : handlerLog[a].key \in served
           /\ DOMAIN tc.cache \subseteq served)

\* With validator and cache, a batch got a cached result for its first call
\* and NoHandler for its second, and the handler ran once in all.
C26_Witness ==
  /\ te.cache /\ te.validator /\ ~te.parallel
  /\ b_count = 2 /\ Len(results) = 2
  /\ results[1].cached
  /\ results[2].err = ErrNoHandler("ghost")
  /\ Len(handlerLog) = 1
  /\ tc.hits = 1

----------------------------------------------------------------------------
(* C27 *)

\* C27: in serial execution with a cache, a call that misses the cache and
\* reaches its handler has the handler's outcome stored under its key, a
\* failure as well as a success; and a call that finds a stored failure
\* within the TTL returns that error marked cached, invokes no handler, and
\* counts as one cached call and one failed call (and, under stop-on-error,
\* ends the batch with that error wrapped).
C27_FailureCached ==
  /\ [][(SingleCallStep /\ te.cache /\ ~FailsValidation(calls[b_i])
           /\ ~FreshEntry(calls[b_i]) /\ calls[b_i].name \in HandlerNames) =>
          LET call == calls[b_i]
              out == HandlerOutcome(call.name, call.args)
          IN /\ results'[b_i] = toolCallResult(call.name, out.result, out.err, FALSE)
             /\ cacheKey(call.name, call.args) \in DOMAIN tc'.cache
             /\ tc'.cache[cacheKey(call.name, call.args)] =
                  [result |-> out.result, err |-> out.err, timestamp |-> now]]_vars
  /\ [][(SingleCallStep /\ ~FailsValidation(calls[b_i]) /\ FreshEntry(calls[b_i])
           /\ tc.cache[cacheKey(calls[b_i].name, calls[b_i].args)].err # Nil) =>
          LET call == calls[b_i]
              stored == tc.cache[cacheKey(call.name, call.args)]
          IN /\ results'[b_i] = toolCallResult(call.name, stored.result, stored.err, TRUE)
             /\ handlerLog' = handlerLog
             /\ tc'.cache = tc.cache
             /\ metrics'.cachedCalls = metrics.cachedCalls + 1
             /\ metrics'.failedCalls = metrics.failedCalls + 1
             /\ metrics'.successfulCalls = metrics.successfulCalls
             /\ te.stopOnError =>
                  /\ b_pc' = "returned"
                  /\ b_err' = ErrToolFailed(call.name, stored.err)]_vars

\* The failing tool was called twice within the TTL: the handler ran once,
\* the second call returned the stored error from the cache, and both calls
\* count as failed.
C27_Witness ==
  /\ te.cache /\ ~te.parallel
  /\ \E i \in DOMAIN results :
       /\ results[i].cached
       /\ results[i].err = [kind |-> "tool failed"]
  /\ Len(handlerLog) = 1
  /\ metrics.cachedCalls = 1
  /\ metrics.failedCalls = 2
  /\ metrics.successfulCalls = 0

----------------------------------------------------------------------------
(* C28 *)

\* C28 as stated, its second part: when the session context is cancelled
\* while a pause-mode wait is pending, the session goroutine terminates and
\* closes the event channel.
C28_AsStated ==
  (s_mode = "pause" /\ s_pc = "waiting" /\ s_ctxDone) ~> (s_pc = "closed")

----------------------------------------------------------------------------
(* C29 *)

\* C29 as stated: once the session context is cancelled the session
\* goroutine terminates and closes the event channel, whatever the consumer
\* does.
C29_AsStated == s_ctxDone ~> (s_pc = "closed" /\ closeCount = 1)

----------------------------------------------------------------------------
(* C30 *)

\* The error kinds the configuration makes retryable: the explicit set, or
\* timeout and cancellation when no set is given.
RetryableKinds(cfg) ==
  IF cfg.RetryableErrors # {} THEN cfg.RetryableErrors
  ELSE {"DeadlineExceeded", "Canceled"}

\* C30: when an invocation of the inner handler fails with an error outside
\* the retryable set (the explicit set, or timeout and cancellation when
\* none is given), the wrapper returns at once, in the same step, with no
\* result and NonRetryable wrapping that error: it enters no backoff wait
\* and makes no further invocation, so a first invocation failing this way
\* is the only one; and the wrapper waits or goes on to another attempt only
\* after an error inside the retryable set.
C30_NoRetryOutsideSet ==
  /\ [][(Len(r_outcomes') = Len(r_outcomes) + 1
           /\ r_outcomes'[Len(r_outcomes')].err # Nil) =>
          LET err == r_outcomes'[Len(r_outcomes')].err
          IN IF err.kind \notin RetryableKinds(config)
             THEN /\ r_pc' = "done"
                  /\ r_ret' = [result |-> Nil, err |-> ErrNonRetryable(err)]
                  /\ attempt' = attempt
             ELSE /\ r_pc' \in {"wait", "loop"}
                  /\ r_ret' = r_ret]_vars
  /\ [][r_pc = "done" => (r_outcomes' = r_outcomes /\ r_pc' = "done"
                            /\ r_ret' = r_ret)]_vars
  /\ [](r_pc = "wait" =>
          /\ r_outcomes # <<>>
          /\ r_outcomes[Len(r_outcomes)].err # Nil
          /\ r_outcomes[Len(r_outcomes)].err.kind \in RetryableKinds(config))
  /\ []((r_pc = "done" /\ r_ret.err.kind = "NonRetryable") =>
          /\ r_ret.err.cause = r_outcomes[Len(r_outcomes)].err
          /\ r_ret.err.cause.kind \notin RetryableKinds(config)
          /\ \A i \in 1 .. Len(r_outcomes) - 1 :
               /\ r_outcomes[i].err # Nil
               /\ r_outcomes[i].err.kind \in RetryableKinds(config))

\* A wrapper without explicit set and with three attempts allowed: the first
\* invocation failed with an error that is neither timeout nor cancellation
\* and the wrapper returned NonRetryable after that one invocation.
C30_Witness ==
  /\ r_pc = "done"
  /\ config.RetryableErrors = {} /\ config.MaxAttempts = 3
  /\ r_outcomes = <<Failure("permanent")>>
  /\ attempt = 0
  /\ r_ret = [result |-> Nil, err |-> ErrNonRetryable([kind |-> "permanent"])]

----------------------------------------------------------------------------
(* C31 *)

\* C31 as stated: when serial execution under stop-on-error returns an
\* error, the results collection returned with it has entries only for the
\* calls up to and including the failing one.
C31_AsStated ==
  (~te.parallel /\ te.stopOnError /\ b_pc = "returned" /\ b_err # Nil) =>
    \A k \in DOMAIN results : results[k].err # Nil => Len(results) = k

----------------------------------------------------------------------------
(* C32 *)

\* What the handler of a requested call returns as value.
AnswerTo(call) == HandlerOutcome(call.name, call.args).result

\* The number of complete tool rounds the turns of seq from position idx on
\* consist of, the first of them being round `round`; -1 when the turns are
\* not a sequence of rounds, each the model's tool-call turn followed by one
\* result per requested call, result i naming and answering call i.
RECURSIVE RoundsFrom(_, _, _, _)
RoundsFrom(p, seq, idx, round) ==
  IF idx > Len(seq) THEN 0
  ELSE LET head == seq[idx]
           n == IF head.role \in {"model", "assistant"} THEN Len(head.calls) ELSE 0
           last == IF p = "google" THEN idx + 1 ELSE idx + n
           ok == IF p = "google"
                 THEN /\ head.role = "model" /\ n > 0
                      /\ last <= Len(seq)
                      /\ seq[last].role = "user"
                      /\ DOMAIN seq[last].parts = 1 .. n
                      /\ \A i \in 1 .. n :
                           seq[last].parts[i] =
                             [name |-> head.calls[i].name,
                              response |-> AnswerTo(head.calls[i])]
                 ELSE /\ head.role = "assistant" /\ n > 0
                      /\ last <= Len(seq)
                      /\ \A i \in 1 .. n :
                           seq[idx + i] =
                             [role |-> "tool", content |-> AnswerTo(head.calls[i]),
                              name |-> head.calls[i].name, id |-> <<round, i>>]
           rest == IF ok THEN RoundsFrom(p, seq, last + 1, round + 1) ELSE -1
       IN IF ok /\ rest >= 0 THEN rest + 1 ELSE -1

\* C32: the conversation of the tool loop only grows, by appending: every
\* step leaves the turns it had in place and unchanged. Between rounds,
\* after k completed tool rounds, it is the initial turns followed by k
\* rounds in order, each the model's tool-call turn and then one tool
\* result per requested call in request order, result i naming and
\* answering call i.
C32_AppendOnly ==
  /\ [][/\ Len(contents') >= Len(contents)
        /\ SubSeq(contents', 1, Len(contents)) = contents]_vars
  /\ [](loop_pc \in {"round", "generate"} =>
          /\ Len(contents) >= Len(InitialContents)
          /\ SubSeq(contents, 1, Len(InitialContents)) = InitialContents
          /\ RoundsFrom(provider, contents, Len(InitialContents) + 1, 1) = genTools)

\* Two tool rounds are complete, the first a batch of two calls.
C32_Witness ==
  /\ loop_pc = "round" /\ genTools = 2
  /\ provider = "google"
  /\ Len(contents) = 5
  /\ Len(contents[2].calls) = 2
  /\ contents[3].parts[1].response # contents[3].parts[2].response

----------------------------------------------------------------------------
(* C33 *)

\* The fragments received that carry call index idx, in arrival order.
FragmentsOf(idx) ==
  LET HasIndex(f) == f.index = idx IN SelectSeq(a_frags, HasIndex)

\* The argument texts of a sequence of fragments, concatenated.
RECURSIVE ConcatArguments(_)
ConcatArguments(q) ==
  IF q = <<>> THEN <<>> ELSE Head(q).arguments \o ConcatArguments(Tail(q))

\* The call the claim expects for index idx.
ExpectedCall(idx) ==
  [id |-> FragmentsOf(idx)[1].id, name |-> FragmentsOf(idx)[1].name,
   arguments |-> ConcatArguments(FragmentsOf(idx))]

\* C33 as stated: when the finish marker has arrived after the fragments of a
\* round, whatever call indexes they carry, the accumulated set was executed
\* once, it holds for every index used exactly the expected call, in index
\* order, and the accumulator is empty.
C33_AsStated ==
  (a_pc \notin {"idle", "recv"}) =>
    LET used == { a_frags[k].index : k \in DOMAIN a_frags }
    IN /\ a_pc = "executed"
       /\ a_rounds = 1
       /\ a_toolCalls = <<>>
       /\ Len(a_calls) = Cardinality(used)
       /\ \A idx \in used :
            LET rank == Cardinality({ j \in used : j <= idx })
            IN a_calls[rank] = ExpectedCall(idx)

----------------------------------------------------------------------------
(* C34 *)

\* The value of a float64 argument has no fractional part.
IsWhole(value) == value.twice % 2 = 0

\* C34 as stated, for a call whose only argument is numeric and described by
\* the schema, with nothing required: a property declared integer accepts
\* the argument exactly when its value has no fractional part and fails with
\* TypeMismatch otherwise, and a property declared number accepts it.
C34_AsStated ==
  (/\ v_pc \in {"done", "twice"}
   /\ v_name \in DOMAIN tv_tools
   /\ ~tv_tools[v_name].empty
   /\ tv_tools[v_name].required = <<>>
   /\ tv_tools[v_name].hasProperties
   /\ DOMAIN v_args = {"x"}
   /\ "x" \in DOMAIN tv_tools[v_name].properties
   /\ v_args["x"].kind = "float64") =>
    /\ tv_tools[v_name].properties["x"] = "number" => v_err = Nil
    /\ tv_tools[v_name].properties["x"] = "integer" =>
         IF IsWhole(v_args["x"]) THEN v_err = Nil
         ELSE v_err = ErrTypeMismatch("x")

----------------------------------------------------------------------------
(* C35 *)

\* The failed retryable attempts made so far.
RetryableFailures ==
  { i \in DOMAIN r_outcomes :
      /\ r_outcomes[i].err # Nil
      /\ isRetryable(r_outcomes[i].err, config.RetryableErrors) }
MinOf(a, b) == IF a <= b THEN a ELSE b

\* C35: a retry-wrapped handler with MaxAttempts >= 1 waits only between
\* attempts: once it has returned, the number of backoff waits it entered is
\* min(n, MaxAttempts-1) for its n failed retryable attempts, and it is never
\* in a wait after the final attempt; the wait after attempt k (from 0) is
\* min(InitialBackoff * BackoffMultiplier^k, MaxBackoff), so no wait exceeds
\* MaxBackoff and, for a multiplier >= 1, the waits are non-decreasing.
C35_BackoffWaits ==
  (r_pc # "idle" /\ config.MaxAttempts >= 1) =>
    /\ r_pc = "done" =>
         Len(r_waits) = MinOf(Cardinality(RetryableFailures), config.MaxAttempts - 1)
    /\ Len(r_outcomes) >= config.MaxAttempts =>
         r_pc # "wait" /\ Len(r_waits) <= config.MaxAttempts - 1
    /\ \A i \in DOMAIN r_waits :
         /\ r_waits[i] = MinOf(config.InitialBackoff
                                 * (config.BackoffMultiplier ^ (i - 1)),
                               config.MaxBackoff)
         /\ r_waits[i] <= config.MaxBackoff
         /\ (i > 1 /\ config.BackoffMultiplier >= 1) => r_waits[i - 1] <= r_waits[i]

\* A run that failed MaxAttempts times with retryable errors, waited between
\* the attempts with a capped last wait, and returned without a further wait.
C35_Witness ==
  /\ r_pc = "done" /\ config.MaxAttempts >= 3
  /\ Len(r_outcomes) = config.MaxAttempts
  /\ Cardinality(RetryableFailures) = config.MaxAttempts
  /\ Len(r_waits) = config.MaxAttempts - 1
  /\ r_waits[1] < r_waits[Len(r_waits)]
  /\ r_waits[Len(r_waits)] = config.MaxBackoff

----------------------------------------------------------------------------
(* C39 *)

\* C39 as stated: whatever the RetryConfig, a wrapped handler that has
\* returned invoked the inner handler at least once, and a RetriesExhausted
\* error wraps a real last error of the inner handler.
C39_AsStated ==
  r_pc = "done" =>
    /\ Len(r_outcomes) >= 1
    /\ (r_ret.err # Nil /\ r_ret.err.kind = "RetriesExhausted") =>
         r_ret.err.cause # Nil

----------------------------------------------------------------------------
(* C36 *)

\* Caller p is about to overwrite: its Set is for a key the cache holds.
Overwrites(p) ==
  /\ c_procs[p].pc = "set"
  /\ cacheKey(c_procs[p].name, MapOf(c_procs[p].built)) \in DOMAIN c_tc.cache

\* C36 as stated: a Set for a key that is already stored leaves the set of
\* stored keys unchanged, also when the cache is at its maximum size.
C36_AsStated ==
  [][\A p \in DOMAIN c_procs :
       (Overwrites(p) /\ SetStore(p)) =>
         DOMAIN c_tc'.cache = DOMAIN c_tc.cache]_vars

----------------------------------------------------------------------------
(* C37 *)

\* Calls whose outcome has been counted.
SettledCalls == metrics.successfulCalls + metrics.failedCalls

\* C37: on a serial executor the counters never decrease and
\* successfulCalls + failedCalls <= totalCalls; once executeBatch has
\* returned, equality holds exactly when no batch was cut short by
\* stop-on-error (no call was left unexecuted); cachedCalls equals the number
\* of results marked cached and the cache's hit count.
C37_SerialCounters ==
  /\ [](~te.parallel =>
         /\ SettledCalls <= metrics.totalCalls
         /\ b_pc \in {"idle", "returned"} =>
              (SettledCalls = metrics.totalCalls <=> b_tally.skipped = 0)
         /\ metrics.cachedCalls = b_tally.cached
         /\ metrics.cachedCalls = tc.hits)
  /\ [][~te.parallel =>
          \A c \in DOMAIN metrics : metrics'[c] >= metrics[c]]_vars

\* A serial executor after two batches: the second was served a cached
\* failure for its first call and was cut short there.
C37_Witness ==
  /\ ~te.parallel /\ b_pc = "returned" /\ b_count = 2
  /\ b_tally.skipped >= 1 /\ metrics.cachedCalls >= 1
  /\ results[1].cached
  /\ SettledCalls < metrics.totalCalls

----------------------------------------------------------------------------
(* C38 *)

\* The workers that have sent their done signal.
DoneWorkers == { i \in DOMAIN w_pc : w_pc[i] = "done" }

\* C38: executeParallel never deadlocks. While a parallel batch runs, the
\* error channel holds at most one error per finished failed worker and the
\* done channel exactly one signal per finished worker, neither beyond the
\* batch size; a worker about to send is never blocked; the collector returns
\* only after one done signal per call; and every parallel batch returns,
\* whatever mix of successes and failures occurs.
C38_NoDeadlock ==
  /\ [](b_pc = "parallel" =>
         /\ doneChan = Cardinality(DoneWorkers)
         /\ Len(errChan) =
              Cardinality({ i \in DoneWorkers : w_local[i].res.err # Nil })
         /\ doneChan <= Len(calls) /\ Len(errChan) <= Len(calls)
         /\ \A i \in DOMAIN w_pc : w_pc[i] = "count" => SendsComplete(i))
  /\ [][(b_pc = "parallel" /\ b_pc' = "returned") =>
          (doneChan = Len(calls) /\ DoneWorkers = DOMAIN calls)]_vars
  /\ (b_pc = "parallel") ~> (b_pc = "returned")

\* A parallel batch of three calls, successes and failures mixed, has
\* returned after three done signals with two errors in the error channel.
C38_Witness ==
  /\ te.parallel /\ b_pc = "returned" /\ Len(calls) = 3
  /\ DoneWorkers = DOMAIN calls
  /\ Len(errChan) = 2
  /\ \E i \in DOMAIN results : results[i].err = Nil /\ results[i].name # ""

----------------------------------------------------------------------------
(* C40 *)

\* What a call yields from its own name and arguments alone: the validation
\* error, the missing-handler error, or the handler's outcome.
OwnError(call) ==
  IF te.validator
  THEN ValidateCall(ExecTools, call.name, call.args,
                    CHOOSE o \in Permutations_(DOMAIN call.args) : TRUE)
  ELSE Nil
ReachesHandler(call) == OwnError(call) = Nil /\ call.name \in HandlerNames
OwnResult(call) ==
  IF OwnError(call) # Nil THEN toolCallResult(call.name, Nil, OwnError(call), FALSE)
  ELSE IF call.name \notin HandlerNames
  THEN toolCallResult(call.name, Nil, ErrNoHandler(call.name), FALSE)
  ELSE toolCallResult(call.name, HandlerOutcome(call.name, call.args).result,
                      HandlerOutcome(call.name, call.args).err, FALSE)

\* Invocations of the handler for index i of the running batch.
InvocationsOf(i) ==
  { a \in DOMAIN handlerLog :
      handlerLog[a].batch = b_count /\ handlerLog[a].index = i }

\* C40: without a cache and with stop-on-error disabled, serial and parallel
\* executeBatch return the same thing for the same calls: in either mode the
\* result at every index is the one the call yields on its own (same name,
\* value and error), there is no batch error, and the handler of every call
\* that reaches its handler is invoked exactly once.
C40_ModesEquivalent ==
  (~te.cache /\ ~te.stopOnError /\ b_pc = "returned") =>
    /\ b_err = Nil
    /\ DOMAIN results = DOMAIN calls
    /\ \A i \in DOMAIN calls :
         /\ i \in DOMAIN results /\ results[i] = OwnResult(calls[i])
         /\ Cardinality(InvocationsOf(i)) =
              IF ReachesHandler(calls[i]) THEN 1 ELSE 0

\* A parallel executor without cache and stop-on-error returned a batch of
\* three calls holding a success, a failure and an unhandled call.
C40_Witness ==
  /\ te.parallel /\ ~te.cache /\ ~te.stopOnError /\ b_pc = "returned"
  /\ Len(calls) = 3
  /\ calls[1].name = "tool2" /\ calls[2].name = "tool1" /\ calls[3].name = "ghost"
  /\ results[1].err # Nil /\ results[2].err = Nil
  /\ Cardinality(InvocationsOf(2)) = 1

====
